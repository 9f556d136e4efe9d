------------------------------ MODULE Terminal ------------------------------
(***************************************************************************)
(* SecureTerminal (src/CryptoManager.cpp) under CommsManager: an event is  *)
(* written character by character into one buffer, which is flushed when   *)
(* it is longer than 512 and at the end; a flushed buffer is a line of its *)
(* own when it is sealed.  The CLI task and, from savePasskey and          *)
(* resetFido2System, the FIDO task use the same buffer without a lock.     *)
(*                                                                         *)
(* An event is a number of equal parts, the last of which ends the line.   *)
(***************************************************************************)
EXTENDS Naturals, Sequences

CONSTANTS
  Writers,     \* the CLI and the FIDO task
  EventLens,   \* lengths of events, in parts
  Limit,       \* 512 characters, in parts
  MaxEvents    \* bound: events

ASSUME TerminalAssumption == EventLens \subseteq Nat \ {0} /\ Limit \in Nat \ {0} /\ MaxEvents \in Nat

VARIABLES
  buffer, sealing,           \* SecureTerminal::buffer, encryptionActive
  wpc, rest, final, out,     \* each task: its place, the parts still to write, whether this is the
                             \* flush at the end, and flush's copy of the buffer
  current,                   \* the event each task is sending
  received, heard,           \* the page: the beginning of a line; the last whole line
  lens, crossed, everSealed  \* history: the events' lengths, those that met another in the buffer,
                             \* and whether a key was ever agreed

terminalVars == <<buffer, sealing, wpc, rest, final, out, current, received, heard, lens, crossed, everSealed>>

TerminalInit ==
  /\ buffer = <<>> /\ sealing = FALSE
  /\ wpc = [w \in Writers |-> "idle"] /\ rest = [w \in Writers |-> <<>>] /\ final = [w \in Writers |-> FALSE]
  /\ out = [w \in Writers |-> <<>>] /\ current = [w \in Writers |-> 0]
  /\ received = <<>> /\ heard = <<>> /\ lens = <<>> /\ crossed = {} /\ everSealed = FALSE

Text(e, n) == [i \in 1..n |-> <<e, i>>]

Others(w) == {current[v] : v \in {u \in Writers \ {w} : wpc[u] # "idle"}}

\* CommsManager::sendEvent and sendError: the document is serialized and printed.
SendEvent(w, n) ==
  LET e == Len(lens) + 1 IN
  /\ wpc[w] = "idle" /\ e <= MaxEvents
  /\ lens' = Append(lens, n)
  /\ wpc' = [wpc EXCEPT ![w] = "write"] /\ rest' = [rest EXCEPT ![w] = Text(e, n)]
  /\ current' = [current EXCEPT ![w] = e]
  /\ crossed' = IF Others(w) = {} THEN crossed ELSE crossed \cup Others(w) \cup {e}
  /\ UNCHANGED <<buffer, sealing, final, out, received, heard, everSealed>>

\* SecureTerminal::write.
WritePart(w) ==
  /\ wpc[w] = "write" /\ rest[w] # <<>>
  /\ buffer' = Append(buffer, Head(rest[w])) /\ rest' = [rest EXCEPT ![w] = Tail(@)]
  /\ wpc' = [wpc EXCEPT ![w] = IF Len(buffer) + 1 > Limit THEN "flush" ELSE "write"]
  /\ final' = [final EXCEPT ![w] = FALSE]
  /\ UNCHANGED <<sealing, out, current, received, heard, lens, crossed, everSealed>>

LastFlush(w) ==
  /\ wpc[w] = "write" /\ rest[w] = <<>>
  /\ wpc' = [wpc EXCEPT ![w] = "flush"] /\ final' = [final EXCEPT ![w] = TRUE]
  /\ UNCHANGED <<buffer, sealing, rest, out, current, received, heard, lens, crossed, everSealed>>

Return(w) == wpc' = [wpc EXCEPT ![w] = IF final[w] THEN "idle" ELSE "write"]

\* SecureTerminal::flush copies the buffer, ...
Flush(w) ==
  /\ wpc[w] = "flush"
  /\ IF buffer = <<>> THEN Return(w) /\ UNCHANGED out
     ELSE wpc' = [wpc EXCEPT ![w] = "clear"] /\ out' = [out EXCEPT ![w] = buffer]
  /\ UNCHANGED <<buffer, sealing, rest, final, current, received, heard, lens, crossed, everSealed>>

\* ... empties it, ...
NotCleared(w) ==                            \* mutant: the buffer is not emptied
  /\ wpc[w] = "clear"
  /\ wpc' = [wpc EXCEPT ![w] = "print"]
  /\ UNCHANGED <<buffer, sealing, rest, final, out, current, received, heard, lens, crossed, everSealed>>
ClearBuffer(w) ==
  /\ wpc[w] = "clear"
  /\ buffer' = <<>> /\ wpc' = [wpc EXCEPT ![w] = "print"]
  /\ UNCHANGED <<sealing, rest, final, out, current, received, heard, lens, crossed, everSealed>>

\* ... and prints the copy: encryptMsg and a line of its own, or as it is.  The page's readLoop
\* takes a sealed line by itself and collects the others up to the end of the line.
EndsLine(text) == text # <<>> /\ text[Len(text)][2] = lens[text[Len(text)][1]]
PrintOut(w) ==
  /\ wpc[w] = "print"
  /\ IF sealing THEN heard' = out[w] /\ received' = <<>>
     ELSE IF EndsLine(out[w]) THEN heard' = received \o out[w] /\ received' = <<>>
     ELSE received' = received \o out[w] /\ UNCHANGED heard
  /\ Return(w) /\ out' = [out EXCEPT ![w] = <<>>]
  /\ UNCHANGED <<buffer, sealing, rest, final, current, lens, crossed, everSealed>>

\* DH_INIT and DISCONNECT, between two commands of the CLI task.
SetSealing(w) ==
  /\ wpc[w] = "idle" /\ Len(lens) < MaxEvents
  /\ sealing' = ~sealing /\ everSealed' = TRUE
  /\ UNCHANGED <<buffer, wpc, rest, final, out, current, received, heard, lens, crossed>>

TerminalNext ==
  \E w \in Writers :
    \/ \E n \in EventLens : SendEvent(w, n)
    \/ WritePart(w) \/ LastFlush(w) \/ Flush(w) \/ ClearBuffer(w) \/ PrintOut(w) \/ SetSealing(w)

TerminalSpec == TerminalInit /\ [][TerminalNext]_terminalVars

\* Every line the page takes is one whole event, nothing lost, repeated or mixed in; unless two
\* tasks were sending at once, or the event is longer than the buffer and sealed in pieces.
WholeLines ==
  heard # <<>> =>
    LET e == heard[1][1] IN
      \/ \E i \in DOMAIN heard : heard[i][1] \in crossed
      \/ everSealed /\ \E i \in DOMAIN heard : lens[heard[i][1]] > Limit + 1
      \/ heard = Text(e, lens[e])
=============================================================================
