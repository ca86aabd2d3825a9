------------------------------ MODULE ScoredRuns ------------------------------
(***************************************************************************)
(* Evaluation runs against the simulator (app/main.py, /run/prod and       *)
(* /run/dev/all): each request plays scored sessions one after the other   *)
(* (app/runners/*.py), a session alternates between a turn of the pipeline *)
(* and a reply to the simulator, and a turn asks the models of Stages 0, 1 *)
(* and 3 through a provider that retries (app/l2_agents/llm_provider.py).  *)
(* Requests run in threads, so several runs may draw on one quota.         *)
(*                                                                         *)
(* The simulator is external: it grants sessions, ends each of them after  *)
(* TurnLimit replies at the latest and then answers with a score; any of   *)
(* its answers may be an error, or be lost after it took effect.  Calls of *)
(* the simulator time out; those of the models and of the database do not, *)
(* and may never return.                                                   *)
(***************************************************************************)
EXTENDS Naturals, FiniteSets

CONSTANTS
    Runs,         \* requests of /run/prod or /run/dev/all
    MaxSessions,  \* sessions of one run: 44 in prod, the 5 scenarios in dev
    Quota,        \* scenarios of the simulator's evaluation set
    TurnLimit,    \* the simulator's limit of replies in a session
    MaxAttempts,  \* calls of generate_content before the provider gives up
    NoScore       \* no score

ASSUME BoundsPositive ==
    /\ MaxSessions \in Nat \ {0} /\ TurnLimit \in Nat \ {0} /\ MaxAttempts \in Nat \ {0}
    /\ Quota \in Nat
ASSUME NoScoreIsNoNumber == NoScore \notin Nat

Places == 1..MaxSessions

VARIABLES
    mode,     \* of each run: "prod", or "dev" for a rehearsal
    step,     \* of each run, where it is
    place,    \* the number of its session, or of its next one
    stage,    \* models that have answered in this turn
    attempt,  \* failed calls of the current model
    closing,  \* the reply's actions hold a close
    score,    \* the score of the simulator's last answer
    row,      \* our sessions rows: absent, open, or closed with a score
    sim,      \* the simulator's sessions: replies taken, and the score once done
    drawn,    \* sessions of the evaluation set the simulator has granted
    reported, \* summaries in the results of a run
    unheard   \* history: sessions that ended at the simulator in an answer that was lost

local == <<stage, attempt, closing, score>>
runsVars == <<mode, step, place, local, row, sim, drawn, reported, unheard>>

Steps == {"start", "turn", "model", "reply", "close", "ended", "raised", "hung"}
Absent == [state |-> "absent", score |-> NoScore]
Unplayed == [open |-> FALSE, replies |-> 0, score |-> NoScore]
Scores == 1..TurnLimit

RunsTypeOK ==
    /\ mode \in [Runs -> {"prod", "dev"}]
    /\ step \in [Runs -> Steps]
    /\ place \in [Runs -> 1..(MaxSessions + 1)]
    /\ stage \in [Runs -> 0..2]
    /\ attempt \in [Runs -> 0..(MaxAttempts - 1)]
    /\ closing \in [Runs -> BOOLEAN]
    /\ score \in [Runs -> Scores \cup {NoScore}]
    /\ row \in [Runs -> [Places -> [state : {"absent", "open", "closed"}, score : Scores \cup {NoScore}]]]
    /\ sim \in [Runs -> [Places -> [open : BOOLEAN, replies : 0..TurnLimit, score : Scores \cup {NoScore}]]]
    /\ drawn \in 0..Quota
    /\ reported \in [Runs -> SUBSET Places]
    /\ unheard \in [Runs -> SUBSET Places]

RunsInit ==
    /\ mode \in [Runs -> {"prod", "dev"}]
    /\ step = [r \in Runs |-> "start"]
    /\ place = [r \in Runs |-> 1]
    /\ stage = [r \in Runs |-> 0]
    /\ attempt = [r \in Runs |-> 0]
    /\ closing = [r \in Runs |-> FALSE]
    /\ score = [r \in Runs |-> NoScore]
    /\ row = [r \in Runs |-> [k \in Places |-> Absent]]
    /\ sim = [r \in Runs |-> [k \in Places |-> Unplayed]]
    /\ drawn = 0
    /\ reported = [r \in Runs |-> {}]
    /\ unheard = [r \in Runs |-> {}]

Go(r, to) == step' = [step EXCEPT ![r] = to]

\* The session of run r is over for it: the next one, if the cap allows.
NextSession(r) ==
    /\ place' = [place EXCEPT ![r] = @ + 1]
    /\ Go(r, IF place[r] = MaxSessions THEN "ended" ELSE "start")
    /\ stage' = [stage EXCEPT ![r] = 0]
    /\ attempt' = [attempt EXCEPT ![r] = 0]
    /\ closing' = [closing EXCEPT ![r] = FALSE]
    /\ score' = [score EXCEPT ![r] = NoScore]

\* Mutated form: a prod run goes on after any error, as a rehearsal does.
RaiseAndGoOn(r) == NextSession(r)

\* An exception leaves run_one_session: run_prod_all does not catch it (its
\* results are lost with it), run_all_rehearsal logs it and goes on.
Raise(r) ==
    IF mode[r] = "dev" THEN NextSession(r)
    ELSE Go(r, "raised") /\ UNCHANGED <<place, local>>

-----------------------------------------------------------------------------
\* The simulator has a session for run r: a rehearsal scenario may be repeated.
Granted(r) == mode[r] = "dev" \/ drawn < Quota

Grants(r) ==
    /\ sim' = [sim EXCEPT ![r][place[r]].open = TRUE]
    /\ drawn' = IF mode[r] = "prod" THEN drawn + 1 ELSE drawn

StartSession(r) ==
    /\ step[r] = "start" /\ Granted(r)
    /\ Grants(r)
    /\ Go(r, "turn")
    /\ UNCHANGED <<place, local, row, reported, unheard>>

\* 409 or another status ends a prod run with the results it has; a rehearsal
\* goes on with the next scenario.
StartRefused(r) ==
    /\ step[r] = "start"
    /\ IF mode[r] = "dev" THEN NextSession(r)
       ELSE Go(r, "ended") /\ UNCHANGED <<place, local>>
    /\ UNCHANGED <<row, sim, drawn, reported, unheard>>

\* A transport error is no SimulatorError; the simulator may have opened a session.
StartLost(r) ==
    /\ step[r] = "start"
    /\ \/ Granted(r) /\ Grants(r)
       \/ UNCHANGED <<sim, drawn>>
    /\ Raise(r)
    /\ UNCHANGED <<row, reported, unheard>>

-----------------------------------------------------------------------------
\* run_turn: Phase 1 refuses the message, and the fallback is the reply.
TurnRefused(r) ==
    /\ step[r] = "turn"
    /\ Go(r, "reply")
    /\ UNCHANGED <<place, local, row, sim, drawn, reported, unheard>>

\* The session row is created with its first message, and the models are asked.
TurnBegins(r) ==
    /\ step[r] = "turn"
    /\ row' = [row EXCEPT ![r][place[r]].state = "open"]
    /\ Go(r, "model")
    /\ UNCHANGED <<place, local, sim, drawn, reported, unheard>>

\* A message the session has answered before is answered from the deduplicator's
\* cache: no model is asked.
TurnReplayed(r) ==
    /\ step[r] = "turn"
    /\ row[r][place[r]].state = "open" /\ sim[r][place[r]].replies > 0
    /\ Go(r, "reply")
    /\ UNCHANGED <<place, local, row, sim, drawn, reported, unheard>>

ToReply(r, withClose) ==
    /\ Go(r, "reply")
    /\ stage' = [stage EXCEPT ![r] = 0]
    /\ attempt' = [attempt EXCEPT ![r] = 0]
    /\ closing' = [closing EXCEPT ![r] = withClose]
    /\ UNCHANGED <<place, score, row, sim, drawn, reported, unheard>>

\* Stage 0, 1 or 3 has its answer, sense or nonsense; a reply may hold a close.
ModelAnswers(r) ==
    /\ step[r] = "model"
    /\ \/ /\ stage[r] < 2
          /\ stage' = [stage EXCEPT ![r] = @ + 1]
          /\ attempt' = [attempt EXCEPT ![r] = 0]
          /\ UNCHANGED <<step, place, closing, score, row, sim, drawn, reported, unheard>>
       \/ /\ stage[r] = 2
          /\ \E withClose \in BOOLEAN : ToReply(r, withClose)

\* Mutated form: an overloaded model is asked again and again.
ModelBusyForEver(r) ==
    /\ step[r] = "model"
    /\ attempt' = [attempt EXCEPT ![r] = (@ + 1) % MaxAttempts]
    /\ UNCHANGED <<step, place, stage, closing, score, row, sim, drawn, reported, unheard>>

\* 429 or 5xx: the call is repeated after a delay.
ModelBusy(r) ==
    /\ step[r] = "model" /\ attempt[r] + 1 < MaxAttempts
    /\ attempt' = [attempt EXCEPT ![r] = @ + 1]
    /\ UNCHANGED <<step, place, stage, closing, score, row, sim, drawn, reported, unheard>>

\* Refused, or out of attempts: run_turn's handler replies with an escalation.
ModelFails(r) ==
    /\ step[r] = "model"
    /\ ToReply(r, FALSE)

\* An error of the database leaves run_turn.
TurnRaises(r) ==
    /\ step[r] \in {"turn", "model"}
    /\ Raise(r)
    /\ UNCHANGED <<row, sim, drawn, reported, unheard>>

-----------------------------------------------------------------------------
\* The simulator takes the reply: it ends the session, at the latest with its
\* last turn, or goes on with a message.
Taken(r, ends) ==
    /\ ends \/ sim[r][place[r]].replies + 1 < TurnLimit
    /\ sim' = [sim EXCEPT ![r][place[r]] =
                  [open |-> ~ends, replies |-> @.replies + 1,
                   score |-> IF ends THEN @.replies + 1 ELSE NoScore]]

\* Mutated form: after a close of the bot's own the answer is not looked at.
ReplyUnread(r) ==
    /\ step[r] = "reply"
    /\ \E ends \in BOOLEAN :
          /\ Taken(r, ends)
          /\ score' = [score EXCEPT ![r] = IF closing[r] THEN @ ELSE sim'[r][place[r]].score]
          /\ Go(r, IF ends \/ closing[r] THEN "close" ELSE "turn")
    /\ UNCHANGED <<place, stage, attempt, closing, row, drawn, reported, unheard>>

\* The answer arrives: done, score and the next message are read from it.
Reply(r) ==
    /\ step[r] = "reply"
    /\ \E ends \in BOOLEAN :
          /\ Taken(r, ends)
          /\ score' = [score EXCEPT ![r] = sim'[r][place[r]].score]
          /\ Go(r, IF ends \/ closing[r] THEN "close" ELSE "turn")
    /\ UNCHANGED <<place, stage, attempt, closing, row, drawn, reported, unheard>>

\* The reply fails, before or after the simulator took it: the loop breaks.
ReplyFails(r) ==
    /\ step[r] = "reply"
    /\ \/ /\ \E ends \in BOOLEAN :
                /\ Taken(r, ends)
                /\ unheard' = IF ends THEN [unheard EXCEPT ![r] = @ \cup {place[r]}] ELSE unheard
       \/ UNCHANGED <<sim, unheard>>
    /\ Go(r, "close")
    /\ UNCHANGED <<place, local, row, drawn, reported>>

\* close_session updates the row, if there is one, and the summary is returned.
Close(r) ==
    /\ step[r] = "close"
    /\ row' = [row EXCEPT ![r][place[r]] =
                  IF @.state = "absent" THEN @ ELSE [state |-> "closed", score |-> score[r]]]
    /\ reported' = [reported EXCEPT ![r] = @ \cup {place[r]}]
    /\ NextSession(r)
    /\ UNCHANGED <<sim, drawn, unheard>>

CloseRaises(r) ==
    /\ step[r] = "close"
    /\ Raise(r)
    /\ UNCHANGED <<row, sim, drawn, reported, unheard>>

\* A call of a model or of the database never returns.
Hangs(r) ==
    /\ step[r] \in {"turn", "model", "close"}
    /\ Go(r, "hung")
    /\ UNCHANGED <<place, local, row, sim, drawn, reported, unheard>>

RunStep(r) ==
    \/ StartSession(r) \/ StartRefused(r) \/ StartLost(r)
    \/ TurnRefused(r) \/ TurnBegins(r) \/ TurnReplayed(r) \/ TurnRaises(r)
    \/ ModelAnswers(r) \/ ModelBusy(r) \/ ModelFails(r)
    \/ Reply(r) \/ ReplyFails(r)
    \/ Close(r) \/ CloseRaises(r)
    \/ Hangs(r)

RunsNext == \E r \in Runs : RunStep(r) /\ UNCHANGED mode

\* Each run has a thread of its own, which goes on when a call returns; the
\* simulator's calls return in time, with an error if need be, and a call of a
\* model or of the database that does not return is Hangs.
RunsSpec == RunsInit /\ [][RunsNext]_runsVars /\ \A r \in Runs : WF_runsVars(RunStep(r) /\ UNCHANGED mode)

-----------------------------------------------------------------------------
\* A session in the results of a run has the score the simulator gave it, and so
\* has its row, closed, unless the answer with the score was lost or Phase 1 let
\* none of its messages through.
ScoresAreRecorded ==
    \A r \in Runs : \A k \in reported[r] :
        /\ row[r][k].state \in {"absent", "closed"}
        /\ row[r][k].state = "closed" =>
              row[r][k].score = IF k \in unheard[r] THEN NoScore ELSE sim[r][k].score

\* A prod run draws no further session of the evaluation set once one that it
\* drew is missing from its results: the start's answer was lost, or a turn or
\* the close raised or hung.  A session whose reply failed is in the results,
\* without a score even if it is still open at the simulator, and the run does
\* go on after it.
NothingDrawnAfterALoss ==
    \A r \in {p \in Runs : mode[p] = "prod"} : \A k \in Places :
        sim[r][k] # Unplayed /\ k \notin reported[r] =>
            /\ k = place[r]
            /\ step[r] \in {"turn", "model", "reply", "close", "raised", "hung"}

\* Every run comes to an end, however often the models and the simulator fail
\* it, unless a call of a model or of the database never returns.
RunsEnd == \A r \in Runs : <>(step[r] \in {"ended", "raised", "hung"})
=============================================================================
