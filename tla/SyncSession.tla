---------------------------- MODULE SyncSession ----------------------------
(***************************************************************************)
(* The client of the variable sync service                                 *)
(* (src/src-tauri/Tools/VariableSyncService.hpp): one TCP connection, one  *)
(* request at a time, and one read of at most 512 bytes taken for its      *)
(* reply.  The server is external: it answers each request it has received *)
(* once and in order, a reply may travel in two segments, and the          *)
(* connection may be lost at any moment.                                   *)
(*                                                                         *)
(* A segment is a request's reply or a part of it, and how its text        *)
(* begins: "error" for [ERROR], "value" for a whole reply that parses,     *)
(* "part" for a fragment that is neither.                                  *)
(***************************************************************************)
EXTENDS Sequences, FiniteSets, SequencesExt

CONSTANT Request    \* what is asked of the server

VARIABLES
    up,        \* the connection stands
    asked,     \* the requests written and not yet answered, in order
    wire,      \* the segments sent and not yet received
    inbox      \* the segments received and not yet read

sessionVars == <<up, asked, wire, inbox>>

Segment == [of : Request, looks : {"error", "value", "part"}]

SessionTypeOK ==
    /\ up \in BOOLEAN
    /\ asked \in Seq(Request)
    /\ wire \in Seq(Segment)
    /\ inbox \in Seq(Segment)

SessionClosed ==
    /\ up = FALSE
    /\ asked = <<>>
    /\ wire = <<>>
    /\ inbox = <<>>

\* What a read can return besides text: the empty string of an error.
NoEcho == "none"

-----------------------------------------------------------------------------
(* connect_to_server and the end of the process, which closes the socket.  *)

Connected ==
    /\ up' = TRUE
    /\ UNCHANGED <<asked, wire, inbox>>

Disconnected ==
    /\ up' = FALSE
    /\ asked' = <<>>
    /\ wire' = <<>>
    /\ inbox' = <<>>

(* send_message, first half: the request is written to a connection that   *)
(* stands.                                                                 *)
WriteRequest(r) ==
    /\ up
    /\ asked' = Append(asked, r)
    /\ UNCHANGED <<up, wire, inbox>>

(* send_message, second half: one read_some.  It returns as soon as        *)
(* anything is there, and as much of it as fits; echo is how the text read *)
(* begins, or what it is as a whole if it is one segment.                  *)
Reading(n) ==
    IF n = 1 \/ inbox[1].looks = "error" THEN inbox[1].looks ELSE "part"

ReadSome(echo) ==
    /\ up
    /\ \E n \in 1..Len(inbox) :
         /\ echo = Reading(n)
         /\ inbox' = SubSeq(inbox, n + 1, Len(inbox))
    /\ UNCHANGED <<up, asked, wire>>

\* On a connection that is lost, writing and reading fail, and echo is "".
SendFails(echo) ==
    /\ ~up
    /\ echo = NoEcho
    /\ UNCHANGED sessionVars

-----------------------------------------------------------------------------
(* The server and the network.                                             *)

\* The segments that carry a reply of that kind: one, or two, cut before or
\* after the seven characters by which an error is recognised.
Replies(r, kind) ==
    {<<[of |-> r, looks |-> kind]>>} \cup
    {<<[of |-> r, looks |-> l], [of |-> r, looks |-> "part"]>> :
        l \in {"part"} \cup (IF kind = "error" THEN {"error"} ELSE {})}

ServerAnswers(kind) ==
    /\ up
    /\ asked # <<>>
    /\ \E segments \in Replies(Head(asked), kind) : wire' = wire \o segments
    /\ asked' = Tail(asked)
    /\ UNCHANGED <<up, inbox>>

SegmentArrives ==
    /\ up
    /\ wire # <<>>
    /\ inbox' = Append(inbox, Head(wire))
    /\ wire' = Tail(wire)
    /\ UNCHANGED <<up, asked>>

\* Lost: what was under way is lost with it.
ConnectionLost ==
    /\ up
    /\ Disconnected

=============================================================================
