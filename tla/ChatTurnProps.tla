----------------------------- MODULE ChatTurnProps -----------------------------
(***************************************************************************)
(* Correctness properties of chat turns.                                   *)
(***************************************************************************)
EXTENDS ChatTurn

\* Every variable holds a value of its column or of its place in the code.
TypeOK ==
    /\ deleted \subseteq Session
    /\ row \in [Turn -> RowStatus]
    /\ session \in [Turn -> Session \cup {None}]
    /\ home \in [Turn -> Process \cup {None}]
    /\ pc \in [Turn -> TurnState]
    /\ outcome \in [Turn -> Final \cup {"none"}]
    /\ said \in [Turn -> SUBSET Role]
    /\ passed \in [Turn -> SUBSET Turn]
    /\ born \in [Turn -> SUBSET Process]
    /\ history \in [Turn -> SUBSET Message]
    /\ up \subseteq started
    /\ started \subseteq Process

\* A process has started since the rows of the turn were inserted: its cleanup
\* took the turn, which may be at work in an overlapping process, for dead.
WrittenOff(t) == born[t] # started

\* "A turn is already in progress for this session": once a turn has its rows,
\* no later post is let in beside it while it works, unless a start-up wrote it
\* off.  So two turns of a session work at once in two cases only: each was
\* admitted before the other had its rows, or the first was written off.
Serial ==
    \A t, u \in Turn : u \in passed[t] /\ Working(u) => WrittenOff(u)

\* The start-up cleanup calls the stream behind a streaming row gone.  A row
\* that is final stays as it is until its session is deleted, with one
\* exception: a failure that the cleanup wrote over a turn still at work.  An
\* answer once shown is never changed.
FinalRowStands ==
    [][\A t \in Turn :
          row[t] \in Final =>
              \/ row'[t] = row[t]
              \/ session[t] \in deleted'
              \/ row[t] = "failed" /\ WrittenOff(t)]_vars

\* A session is held up by a turn at work, by one that could not record its
\* end, or by one whose process is gone; never by a turn that was there when a
\* process started.
NoOrphans ==
    \A t \in Turn :
        row[t] = "streaming" =>
            pc[t] \in AtWork \cup {"unrecorded", "lost"} /\ ~WrittenOff(t)

\* What a turn is meant to be given: its own question, and the messages of the
\* turns it passed that the session shows.
Above(t) == {m \in Complete(session[t]) : m = <<t, "user">> \/ m[1] \in passed[t]}

\* The model is given the end of the conversation without a gap: a message above
\* the turn is missing only if the history is full of messages none of which is
\* older, or if it is the answer of a turn that was written off and ended later.
HistoryComplete ==
    \A t \in Turn :
        Working(t) /\ pc[t] # "prepared" =>
            \A m \in Above(t) \ history[t] :
                \/ /\ Cardinality(history[t]) = Limit
                   /\ \A n \in history[t] : ~Older(n, m)
                \/ m[2] = "assistant" /\ WrittenOff(m[1])

(***************************************************************************)
(* The inductive invariant.                                                *)
(***************************************************************************)

\* What the handler and the task have set at each point of their code, and the
\* cascade of a deleted session.
Placed ==
    \A t \in Turn :
        /\ pc[t] = "idle" => session[t] = None /\ passed[t] = {}
        /\ pc[t] # "idle" => session[t] \in Session
        /\ pc[t] \in {"idle", "admitted"} => row[t] = "none" /\ said[t] = {}
        /\ home[t] # None <=> pc[t] \in AtWork \cup {"admitted"}
        /\ pc[t] = "ending" => outcome[t] \in Final
        /\ session[t] \in deleted => row[t] = "none"
        /\ born[t] \subseteq started

\* A turn that was passed had its rows, of the same session, and was not
\* streaming.
PassedFinal ==
    \A t \in Turn : \A u \in passed[t] :
        /\ session[u] = session[t]
        /\ pc[u] \notin {"idle", "admitted"}
        /\ row[u] \in Final \/ session[u] \in deleted

\* The placeholder of a turn at work is still a placeholder, unless a start-up
\* wrote it off.
WorkingStreams ==
    \A t \in Turn :
        Working(t) =>
            \/ row[t] = "streaming"
            \/ session[t] \in deleted
            \/ row[t] = "failed" /\ WrittenOff(t)

TurnInv ==
    /\ TypeOK /\ Placed /\ PassedFinal /\ WorkingStreams
    /\ Serial /\ NoOrphans /\ HistoryComplete
=============================================================================
