---------------------------- MODULE ForkingProxy ----------------------------
(***************************************************************************)
(* What a forking proxy promises upstream for one request: it collects the *)
(* results of the branches it has opened, lets a 2xx through at once, and  *)
(* otherwise answers once, with the best of the results of a round, when   *)
(* no branch is awaited any more.  Only a 6xx or a CANCEL ends the wait.    *)
(***************************************************************************)
EXTENDS Integers

CONSTANT Branches

VARIABLES
  invite,     \* the request is an INVITE: later 2xx replies pass as well
  answer,     \* the last status given upstream, 0 at first
  result,     \* the final status of every branch, 0 until it has one
  round,      \* branches with the same number were forked together
  live,       \* the branches a result is awaited from
  cancelled   \* the request was cancelled
vars == <<invite, answer, result, round, live, cancelled>>

\* Which of two negative results is relayed: 487 for a cancelled request,
\* otherwise the lower one, and 503 last.
Rank(code) ==
  CASE cancelled /\ code = 487 -> 0
    [] code = 503              -> 1000
    [] OTHER                   -> code

Ended == live = {} \/ cancelled \/ \E b \in Branches : result[b] >= 600

Best(b) ==
  \/ result[b] >= 600
  \/ /\ Ended /\ result[b] >= 300
     /\ \A a \in Branches : round[a] = round[b] /\ result[a] >= 300
                              => Rank(result[b]) <= Rank(result[a])

Init ==
  /\ invite \in BOOLEAN /\ answer = 0 /\ live = {} /\ cancelled = FALSE
  /\ result = [b \in Branches |-> 0]
  /\ round = [b \in Branches |-> -1]

Cancel == cancelled' = TRUE /\ UNCHANGED <<invite, answer, result, round, live>>

\* A branch is opened, in any round.
Open(b, r) ==
  /\ round[b] = -1
  /\ live' = live \cup {b} /\ round' = [round EXCEPT ![b] = r]
  /\ UNCHANGED <<invite, answer, result, cancelled>>

\* It could not be reached.
GiveUp(b) ==
  /\ live' = live \ {b}
  /\ UNCHANGED <<invite, answer, result, round, cancelled>>

\* A branch has a result: its first one, or one more 2xx for an INVITE.
\* Others may be tried instead, and some of those reached.
Report(b) ==
  /\ result'[b] >= 200
  /\ result[b] = 0 \/ (invite /\ result'[b] < 300)
  /\ result' = [result EXCEPT ![b] = result'[b]]
  /\ \E new \in SUBSET {a \in Branches : round[a] = -1} :
       /\ \E reached \in SUBSET new : live' = (live \ {b}) \cup reached
       /\ \E r \in [new -> Branches] :
            round' = [a \in Branches |-> IF a \in new THEN r[a] ELSE round[a]]

\* What may be said upstream: provisional replies, one negative answer of a
\* branch or of the proxy itself, and 2xx, even after another answer to an
\* INVITE.
Answer ==
  \/ answer' = answer
  \/ answer < 200 /\ answer' \in 100..199
  \/ answer < 200 /\ Ended' /\ answer' \in 400..599
  \/ \E b \in Branches :
       /\ answer' = result'[b]
       /\ \/ answer < 200 /\ Best(b)'
          \/ (answer < 200 \/ invite) /\ answer' \in 200..299

Next ==
  \/ Cancel
  \/ \E b, r \in Branches : Open(b, r)
  \/ \E b \in Branches : GiveUp(b)
  \/ /\ Answer
     /\ UNCHANGED <<invite, cancelled>>
     /\ (\E b \in Branches : Report(b)) \/ UNCHANGED <<result, round, live>>

Spec == Init /\ [][Next]_vars
=============================================================================
