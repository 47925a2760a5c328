------------------------------- MODULE ChatTurn -------------------------------
(***************************************************************************)
(* Chat turns: a message is posted to a session, a detached task drives    *)
(* the language model, and the assistant's row, inserted as a "streaming"  *)
(* placeholder, is updated once when the task ends.  The request that      *)
(* started the turn only listens to it, so its event stream is left out: a *)
(* client that disconnects changes nothing here.                           *)
(*                                                                         *)
(* A turn is one POST to /chat/sessions/{id}/messages.  The handler reads  *)
(* the session and its streaming rows, then inserts its own, in separate   *)
(* transactions, and any number of posts may be between the two.  A        *)
(* process is one incarnation of the server; at start-up it marks every    *)
(* streaming row failed, those of a process it replaces included.          *)
(*                                                                         *)
(* passed and born are history variables: no action reads them but the     *)
(* order of the message ids, which passed determines.                      *)
(***************************************************************************)
EXTENDS Naturals, FiniteSets

CONSTANTS
    Turn,     \* posts to /messages
    Session,  \* chat sessions
    Process,  \* incarnations of the server, each of which starts once
    Limit,    \* messages the model is given at most
    None      \* no session, no process

ASSUME ChatAssumption ==
    /\ None \notin Session \cup Process
    /\ Limit \in Nat \ {0}

VARIABLES
    deleted,  \* sessions that were deleted
    row,      \* chat_messages.status of the turn's assistant row
    session,  \* the session a turn was posted to
    home,     \* the process at work on the turn
    pc,       \* where the handler, then the task, of the turn is
    outcome,  \* terminal_status the task has decided
    said,     \* roles whose message of the turn is not empty
    passed,   \* turns of the session that had their rows when this was admitted
    born,     \* processes that had started when the rows were inserted
    history,  \* messages the model was given
    up,       \* processes that are running
    started   \* processes that have been started

table == <<deleted, row, said>>
memory == <<home, pc, outcome, history>>
vars == <<table, memory, session, passed, born, up, started>>

Final == {"complete", "failed"}
RowStatus == {"none", "streaming"} \cup Final
AtWork == {"prepared", "running", "ending"}
\* "unrecorded": the code is done and the placeholder may still be streaming;
\* "lost": its process is gone.
TurnState == {"idle", "admitted", "over", "unrecorded", "lost"} \cup AtWork
Role == {"user", "assistant"}
Message == Turn \X Role

\* The turn has rows and code in a live process that will finish it.
Working(t) == pc[t] \in AtWork

InSession(s) == {t \in Turn : session[t] = s}

\* The messages a session shows that are complete and not empty: questions are
\* complete from the start.
Complete(s) ==
    {m \in Message :
        /\ session[m[1]] = s /\ m[2] \in said[m[1]]
        /\ IF m[2] = "user" THEN row[m[1]] # "none" ELSE row[m[1]] = "complete"}

\* Message m has a smaller id than n: it is the question n answers, or its
\* turn's rows were there when the turn of n was admitted.  The ids of turns
\* that were admitted side by side may interleave.
Older(m, n) ==
    \/ m[1] \in passed[n[1]]
    \/ m[1] = n[1] /\ m[2] = "user" /\ n[2] = "assistant"

\* Mutant: the first messages of the session instead of its last.
Oldest(S) ==
    {h \in SUBSET S :
        IF Cardinality(S) <= Limit
        THEN h = S
        ELSE /\ Cardinality(h) = Limit
             /\ \A n \in h, m \in S \ h : ~Older(m, n)}

\* ORDER BY id DESC LIMIT.
Newest(S) ==
    {h \in SUBSET S :
        IF Cardinality(S) <= Limit
        THEN h = S
        ELSE /\ Cardinality(h) = Limit
             /\ \A n \in h, m \in S \ h : ~Older(n, m)}

\* Mutant: ask the registry of running tasks instead of the table.
HasStreamingRegistered(s) == \E t \in InSession(s) : pc[t] = "running"

\* has_streaming_message.
HasStreaming(s) == \E t \in InSession(s) : row[t] = "streaming"

Init ==
    /\ deleted = {}
    /\ row = [t \in Turn |-> "none"]
    /\ session = [t \in Turn |-> None]
    /\ home = [t \in Turn |-> None]
    /\ pc = [t \in Turn |-> "idle"]
    /\ outcome = [t \in Turn |-> "none"]
    /\ said = [t \in Turn |-> {}]
    /\ passed = [t \in Turn |-> {}]
    /\ born = [t \in Turn |-> {}]
    /\ history = [t \in Turn |-> {}]
    /\ up = {}
    /\ started = {}

\* The handler or the task of t is done, and what it held is dropped.
Leave(t, how) ==
    /\ pc' = [pc EXCEPT ![t] = how]
    /\ home' = [home EXCEPT ![t] = None]
    /\ outcome' = [outcome EXCEPT ![t] = "none"]
    /\ history' = [history EXCEPT ![t] = {}]

(***************************************************************************)
(* The process.                                                            *)
(***************************************************************************)

\* Mutant: start-up leaves the rows of earlier processes alone.
StartProcessForgetful(p) ==
    /\ p \notin started
    /\ up' = up \cup {p}
    /\ started' = started \cup {p}
    /\ UNCHANGED <<table, memory, session, passed, born>>

\* lifespan: every streaming row is taken to belong to a previous process.
StartProcess(p) ==
    /\ p \notin started
    /\ up' = up \cup {p}
    /\ started' = started \cup {p}
    /\ row' = [t \in Turn |-> IF row[t] = "streaming" THEN "failed" ELSE row[t]]
    /\ UNCHANGED <<deleted, said, memory, session, passed, born>>

\* The process stops: its handlers and tasks are gone.
StopProcess(p) ==
    /\ p \in up
    /\ up' = up \ {p}
    /\ pc' = [t \in Turn |-> IF home[t] = p THEN "lost" ELSE pc[t]]
    /\ outcome' = [t \in Turn |-> IF home[t] = p THEN "none" ELSE outcome[t]]
    /\ history' = [t \in Turn |-> IF home[t] = p THEN {} ELSE history[t]]
    /\ home' = [t \in Turn |-> IF home[t] = p THEN None ELSE home[t]]
    /\ UNCHANGED <<table, session, passed, born, started>>

(***************************************************************************)
(* The request.                                                            *)
(***************************************************************************)

\* send_message: the session exists and has no streaming row.
Admit(t, s, p) ==
    /\ pc[t] = "idle" /\ p \in up
    /\ s \notin deleted
    /\ ~HasStreaming(s)
    /\ pc' = [pc EXCEPT ![t] = "admitted"]
    /\ session' = [session EXCEPT ![t] = s]
    /\ home' = [home EXCEPT ![t] = p]
    /\ passed' = [passed EXCEPT ![t] = {u \in InSession(s) : row[u] # "none"}]
    /\ UNCHANGED <<table, outcome, history, born, up, started>>

\* _append_user_message_and_prepare_turn: the question, which may be empty, and
\* the placeholder in one transaction, which the foreign key refuses when the
\* session was deleted meanwhile.
Prepare(t) ==
    /\ pc[t] = "admitted"
    /\ session[t] \notin deleted
    /\ row' = [row EXCEPT ![t] = "streaming"]
    /\ \E q \in {{}, {"user"}} : said' = [said EXCEPT ![t] = q]
    /\ born' = [born EXCEPT ![t] = started]
    /\ pc' = [pc EXCEPT ![t] = "prepared"]
    /\ UNCHANGED <<deleted, home, outcome, history, session, passed, up, started>>

\* It raises before its commit; a commit whose answer is lost is Prepare and
\* LoadRaises.
PrepareRaises(t) ==
    /\ pc[t] = "admitted"
    /\ Leave(t, "over")
    /\ UNCHANGED <<table, session, passed, born, up, started>>

\* start_turn: load the last messages, register the runtime, spawn its task
\* and subscribe to it, with no await after the load.
LoadHistory(t) ==
    /\ pc[t] = "prepared"
    /\ \E h \in Newest(Complete(session[t])) : history' = [history EXCEPT ![t] = h]
    /\ pc' = [pc EXCEPT ![t] = "running"]
    /\ UNCHANGED <<table, home, outcome, session, passed, born, up, started>>

\* The load raises: the request ends with the placeholder still streaming.
LoadRaises(t) ==
    /\ pc[t] = "prepared"
    /\ Leave(t, "unrecorded")
    /\ UNCHANGED <<table, session, passed, born, up, started>>

(***************************************************************************)
(* The task.                                                               *)
(***************************************************************************)

\* run: the loop over the model's events ends, with or without an answer, or
\* raises or is cancelled.
EndTurn(t, s) ==
    /\ pc[t] = "running"
    /\ pc' = [pc EXCEPT ![t] = "ending"]
    /\ outcome' = [outcome EXCEPT ![t] = s]
    /\ UNCHANGED <<table, home, history, session, passed, born, up, started>>

\* _finalize_assistant_message updates by turn_id whatever the row says, and
\* finds no row when the session was deleted.
Recorded(t) ==
    [row EXCEPT ![t] = IF @ = "none" THEN "none" ELSE outcome[t]]

\* The content it writes with a complete row: an answer, or none.
Answered(t) ==
    IF outcome[t] = "complete" /\ row[t] # "none"
    THEN {said, [said EXCEPT ![t] = @ \cup {"assistant"}]}
    ELSE {said}

Finalize(t) ==
    /\ pc[t] = "ending"
    /\ row' = Recorded(t)
    /\ said' \in Answered(t)
    /\ Leave(t, "over")
    /\ UNCHANGED <<deleted, session, passed, born, up, started>>

\* Mutant: when recording raises, try again as a failure.
FinalizeRaisesRetries(t) ==
    /\ pc[t] = "ending"
    /\ \/ row' = row /\ said' = said
       \/ row' = Recorded(t) /\ said' \in Answered(t)
    /\ outcome' = [outcome EXCEPT ![t] = "failed"]
    /\ UNCHANGED <<deleted, home, pc, history, session, passed, born, up, started>>

\* Recording raises, before or after its commit; the exception is logged.
FinalizeRaises(t) ==
    /\ pc[t] = "ending"
    /\ \/ row' = row /\ said' = said
       \/ row' = Recorded(t) /\ said' \in Answered(t)
    /\ Leave(t, "unrecorded")
    /\ UNCHANGED <<deleted, session, passed, born, up, started>>

(***************************************************************************)
(* The session.                                                            *)
(***************************************************************************)

\* delete_session cascades to the messages; a running turn is not told.
DeleteSession(s) ==
    /\ up # {} /\ s \notin deleted
    /\ deleted' = deleted \cup {s}
    /\ row' = [t \in Turn |-> IF session[t] = s THEN "none" ELSE row[t]]
    /\ said' = [t \in Turn |-> IF session[t] = s THEN {} ELSE said[t]]
    /\ UNCHANGED <<memory, session, passed, born, up, started>>

Request(t) ==
    \/ \E s \in Session, p \in Process : Admit(t, s, p)
    \/ Prepare(t) \/ PrepareRaises(t) \/ LoadHistory(t) \/ LoadRaises(t)

Task(t) ==
    \/ \E s \in Final : EndTurn(t, s)
    \/ Finalize(t) \/ FinalizeRaises(t)

Next ==
    \/ \E p \in Process : StartProcess(p) \/ StopProcess(p)
    \/ \E t \in Turn : Request(t) \/ Task(t)
    \/ \E s \in Session : DeleteSession(s)

Spec == Init /\ [][Next]_vars
=============================================================================
