---------------------------- MODULE DebugCommand ----------------------------
(***************************************************************************)
(* extension/src/command.ts and handshake.ts: the wait for the handshake   *)
(* of one `mpremote debug` child.  The child's stdout arrives in chunks    *)
(* that respect no line; the first valid MPDBG-READY line resolves the     *)
(* wait, and its end, a spawn error or the timer rejects it.               *)
(*                                                                         *)
(* Text is a sequence of symbols: the prefix "MPDBG-READY ", payloads that *)
(* validate (one symbol each, to tell handshakes apart), one that does     *)
(* not, other text, a carriage return and a newline.                       *)
(***************************************************************************)
EXTENDS Naturals, Sequences, SequencesExt, FiniteSets

CONSTANTS
    Payloads,   \* the payloads that pass validate()
    MaxBuf,     \* MAX_BUF_CHARS, in symbols
    MaxFed      \* bound: symbols the child prints

ASSUME DebugCommandAssumption ==
    /\ MaxBuf \in Nat \ {0} /\ MaxFed \in Nat
    /\ Payloads \cap {"prefix", "bad", "text", "cr", "nl", "none"} = {}

Symbols == Payloads \cup {"prefix", "bad", "text", "cr", "nl"}
NoHandshake == "none"
Reasons == {"none", "timeout", "exit", "spawn"}

VARIABLES
    fed,        \* everything the scanner was given
    buf,        \* HandshakeScanner.buf
    found,      \* HandshakeScanner.found
    malformed,  \* HandshakeScanner.malformedError is set
    truncated,  \* the cap has cut the buffer
    settled,    \* the promise: "no", "resolved" or "rejected"
    reason,     \* why it was rejected, and whether a bad line leads the message
    blamed,
    timer,      \* "armed", "fired" or "cleared"
    listening,  \* onStdout, onClose and onError are attached
    child       \* "running", "closed" (exited, output delivered) or "killed"

scanner == <<buf, found, malformed, truncated>>
promise == <<settled, reason, blamed>>
vars    == <<fed, scanner, promise, timer, listening, child>>

TypeOK ==
    /\ fed \in Seq(Symbols)
    /\ buf \in Seq(Symbols \ {"nl"}) /\ Len(buf) <= MaxBuf
    /\ found \in Payloads \cup {NoHandshake}
    /\ malformed \in BOOLEAN /\ truncated \in BOOLEAN
    /\ settled \in {"no", "resolved", "rejected"}
    /\ reason \in Reasons /\ blamed \in BOOLEAN
    /\ timer \in {"armed", "fired", "cleared"}
    /\ listening \in BOOLEAN
    /\ child \in {"running", "closed", "killed"}

Init ==
    /\ fed = <<>>
    /\ buf = <<>> /\ found = NoHandshake /\ malformed = FALSE /\ truncated = FALSE
    /\ settled = "no" /\ reason = "none" /\ blamed = FALSE
    /\ timer = "armed" /\ listening = TRUE
    /\ child = "running"

-----------------------------------------------------------------------------
(* HandshakeScanner.                                                       *)

HasPrefix(line) == line # <<>> /\ line[1] = "prefix"

\* parseHandshakeLine(): JSON tolerates the white space a "\r" is.
Payload(line) ==
    LET rest == SelectSeq(Tail(line), LAMBDA c : c # "cr")
    IN  IF Len(rest) = 1 /\ rest[1] \in Payloads
        THEN rest[1] ELSE NoHandshake

\* Mutant: every handshake line is taken, the last one wins.
ConsumeLatest(scan, line) ==
    IF ~HasPrefix(line) THEN scan
    ELSE IF Payload(line) # NoHandshake THEN [scan EXCEPT !.found = Payload(line)]
    ELSE [scan EXCEPT !.malformed = TRUE]

\* Mutant: every line is blamed, not only one that begins like a handshake.
ConsumeBlames(scan, line) ==
    IF scan.found # NoHandshake THEN scan
    ELSE IF HasPrefix(line) /\ Payload(line) # NoHandshake
    THEN [scan EXCEPT !.found = Payload(line)]
    ELSE [scan EXCEPT !.malformed = TRUE]

\* consumeLine(): the first valid handshake is kept, later ones are ignored, a
\* bad one is remembered.
ConsumeLine(scan, line) ==
    IF ~HasPrefix(line) \/ scan.found # NoHandshake THEN scan
    ELSE IF Payload(line) # NoHandshake THEN [scan EXCEPT !.found = Payload(line)]
    ELSE [scan EXCEPT !.malformed = TRUE]

\* push(), one symbol on: a newline consumes the line gathered so far.
Step(scan, c) ==
    IF c = "nl" THEN [ConsumeLine(scan, scan.buf) EXCEPT !.buf = <<>>]
    ELSE [scan EXCEPT !.buf = Append(@, c)]

\* Mutant: the buffer grows with the output.
Uncapped(text) == text

Capped(text) == IF Len(text) > MaxBuf
                THEN SubSeq(text, Len(text) - MaxBuf + 1, Len(text)) ELSE text

Scanner == [buf |-> buf, found |-> found, malformed |-> malformed]
Pushed(chunk) == FoldLeft(Step, Scanner, chunk)

\* flush(): what is left in the buffer is a last line.
Flushed == IF buf = <<>> THEN Scanner
           ELSE [ConsumeLine(Scanner, buf) EXCEPT !.buf = <<>>]

Scan(scan) ==
    /\ buf' = Capped(scan.buf)
    /\ truncated' = (truncated \/ Len(scan.buf) > MaxBuf)
    /\ found' = scan.found
    /\ malformed' = scan.malformed

-----------------------------------------------------------------------------
(* runDebugCommand.                                                        *)

\* cleanupListeners(): the timer and every listener.
Cleanup(clock) == timer' = clock /\ listening' = FALSE

SettleResolve ==
    /\ settled' = "resolved"
    /\ Cleanup("cleared")
    /\ UNCHANGED <<reason, blamed, child>>

\* Mutant: the child of a rejected wait is left to itself.
RejectOnly(why, blame, clock) ==
    /\ settled' = "rejected" /\ reason' = why /\ blamed' = blame
    /\ Cleanup(clock)
    /\ UNCHANGED child

SettleReject(why, blame, clock) ==
    /\ settled' = "rejected" /\ reason' = why /\ blamed' = blame
    /\ Cleanup(clock)
    /\ child' = IF child = "running" THEN "killed" ELSE child

\* onStdout.
Data(chunk) ==
    /\ listening /\ child = "running"
    /\ fed' = fed \o chunk
    /\ Scan(Pushed(chunk))
    /\ IF found' # NoHandshake THEN SettleResolve
       ELSE UNCHANGED <<promise, timer, listening, child>>

\* Mutant: the line the output ended in is not looked at.
CloseUnflushed ==
    /\ listening /\ child = "running"
    /\ settled' = "rejected" /\ reason' = "exit" /\ blamed' = malformed
    /\ Cleanup("cleared")
    /\ child' = "closed"
    /\ UNCHANGED <<fed, scanner>>

\* onClose: the child is gone and its output all delivered.
Close ==
    /\ listening /\ child = "running"
    /\ child' = "closed"
    /\ Scan(Flushed)
    /\ Cleanup("cleared")
    /\ IF found' # NoHandshake
       THEN settled' = "resolved" /\ UNCHANGED <<reason, blamed>>
       ELSE settled' = "rejected" /\ reason' = "exit" /\ blamed' = malformed'
    /\ UNCHANGED fed

\* onError: the child could not be spawned, or signalled.
SpawnError ==
    /\ listening
    /\ SettleReject("spawn", FALSE, "cleared")
    /\ UNCHANGED <<fed, scanner>>

Timeout ==
    /\ timer = "armed"
    /\ SettleReject("timeout", malformed, "fired")
    /\ UNCHANGED <<fed, scanner>>

Chunks == UNION {[1 .. n -> Symbols] : n \in 1 .. MaxFed - Len(fed)}

Next == (\E chunk \in Chunks : Data(chunk)) \/ Close \/ SpawnError \/ Timeout

\* Node's timer fires; the child is under no obligation.
Spec == Init /\ [][Next]_vars /\ WF_vars(Timeout)

-----------------------------------------------------------------------------
(* Correctness.  The reference: the lines of the whole text.               *)

LineEnds(text) == {j \in DOMAIN text : text[j] = "nl"}
LineStart(text, j) ==
    CHOOSE i \in 1 .. j : /\ i = 1 \/ text[i - 1] = "nl"
                          /\ \A k \in i .. j - 1 : text[k] # "nl"
LineAt(text, j) == SubSeq(text, LineStart(text, j), j - 1)

ValidLines(text) ==
    {j \in LineEnds(text) : /\ HasPrefix(LineAt(text, j))
                            /\ Payload(LineAt(text, j)) # NoHandshake}

\* The handshake a reader of the whole text would take: the first valid line.
FirstHandshake(text) ==
    LET valid == ValidLines(text)
    IN  IF valid = {} THEN NoHandshake
        ELSE Payload(LineAt(text, CHOOSE j \in valid : \A k \in valid : j <= k))

HasBadLine(text) ==
    \E j \in LineEnds(text) : HasPrefix(LineAt(text, j))
                              /\ Payload(LineAt(text, j)) = NoHandshake

\* The text as the stream's end presents it: a last line needs no newline.
Ended == IF child = "closed" /\ settled # "no" THEN Append(fed, "nl") ELSE fed

\* However the output is cut into chunks, the wait resolves with the first
\* valid handshake line of it and with nothing else (handshake.ts l.128-142),
\* as long as no line outgrew the buffer.
FirstHandshakeWins ==
    settled = "resolved" /\ ~truncated => found = FirstHandshake(Ended)

\* No wait is rejected over output that held a handshake the buffer can hold:
\* not for a malformed line before it, a missing newline at the end, or endless
\* other text the cap has cut (handshake.ts l.123-142, l.168-186).
NoHandshakeMissed ==
    settled = "rejected" =>
        \A j \in ValidLines(Ended) : Len(LineAt(Ended, j)) > MaxBuf

\* The message blames a bad line exactly when the output had one
\* (command.ts l.178-187, l.256-266).
BlameIsDeserved ==
    settled = "rejected" /\ reason # "spawn" /\ ~truncated =>
        (blamed <=> HasBadLine(Ended))

\* The wait its caller sees.
Wait == INSTANCE HandshakeWait WITH handed <- found

\* The timer, the exit, the spawn error and the handshake race, and the caller
\* gets one outcome: a handshake with a child that was not killed, or a refusal
\* that left none running, for then it has no handle to kill it by
\* (command.ts l.152-158, l.205-230).
ImplementsWait == Wait!Spec
=============================================================================
