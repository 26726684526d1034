----------------------------- MODULE Application -----------------------------
(***************************************************************************)
(* factory.py and dependencies.py: an application with lifespans, the body *)
(* limit and the routes.  A request passes the middleware, finds its       *)
(* configuration, is validated and authorized, and its handler asks for    *)
(* checkpoints.                                                            *)
(*                                                                         *)
(* The ASGI server is external: it lets lifespans begin and end only while *)
(* no request is being served.                                             *)
(***************************************************************************)
EXTENDS Lifespan, RequestBodyLimit, CheckpointTargets

VARIABLES
  stage,   \* where the request is beyond the middleware
  bound,   \* the configuration bound to its router, or NotSet
  config,  \* what get_server_config returned
  asked    \* the accepted request: its route, thread, body and targets

appVars == <<lifeVars, bodyVars, stage, bound, config, asked>>

NothingAsked == [route |-> "none", thread |-> None, body |-> None, targets |-> {}]

\* The bodies of each route, and what becomes of them.
Bodies(route) ==
  CASE route = "run" -> RunBody [] route = "state" -> StateBody
    [] route = "update" -> UpdateBody [] route = "history" -> HistoryBody

Accepted(route, t, b) ==
  CASE route = "run" -> RunAccepted(b)
    [] route = "state" -> StateAccepted(t, b)
    [] route = "update" -> UpdateAccepted(t, b)
    [] route = "history" -> HistoryAccepted(t, b)

Targets(route, t, b) ==
  CASE route = "run" -> RunTargets(t, b)
    [] route = "state" -> StateTargets(t, b)
    [] route = "update" -> UpdateTargets(t, b)
    [] route = "history" -> HistoryTargets(t, b)

Routes == {"run", "state", "update", "history"}

ApplicationTypeOK ==
  /\ LifeTypeOK /\ BodyTypeOK
  /\ stage \in {"none", "middleware", "resolved", "handling"}
  /\ {bound, config} \subseteq Exposable
  /\ asked.targets \subseteq Target

AppInit ==
  /\ LifeInit /\ BodyInit
  /\ stage = "none" /\ bound = NotSet /\ config = NotSet /\ asked = NothingAsked

-----------------------------------------------------------------------------
LifespanStep ==
  /\ stage = "none"
  /\ (\E c \in Configs : Starts(c)) \/ Enters \/ EnterFails \/ Leaves \/ Closes
  /\ UNCHANGED <<bodyVars, stage, bound, config, asked>>

\* A request to a router without a configuration, or to that of create_app,
\* which is bound to the configuration of the application's own lifespan.
Serve(sc, length) ==
  /\ stage = "none" /\ Running
  /\ BodyArrives(sc, length)
  /\ stage' = "middleware"
  /\ bound' \in {NotSet} \cup (IF spans = << >> THEN {} ELSE {spans[1].config})
  /\ UNCHANGED <<lifeVars, config, asked>>

MiddlewareStep ==
  /\ stage = "middleware"
  /\ Checks \/ \E m \in Message : Reads(m)
  /\ UNCHANGED <<lifeVars, stage, bound, config, asked>>

\* The application reads the body and, while a handler works, waits for the
\* client to go away.
ApplicationReads ==
  /\ stage \in {"middleware", "handling"}
  /\ stage = "middleware" => ~ Ended(got)
  /\ got # << >> => Last(got) # Disconnect
  /\ AppReceives
  /\ UNCHANGED <<lifeVars, stage, bound, config, asked>>

\* get_server_config: the router's configuration, else what is exposed.
get_server_config == IF bound # NotSet THEN bound ELSE exposed

BodyIsWhole == scope = "http" /\ Ended(got) /\ Last(got) # Disconnect

Resolve ==
  /\ stage = "middleware" /\ BodyIsWhole /\ get_server_config # NotSet
  /\ stage' = "resolved" /\ config' = get_server_config
  /\ UNCHANGED <<lifeVars, bodyVars, bound, asked>>

\* The body is valid and the authorizer does not refuse.
Handle(route, t, b) ==
  /\ stage = "resolved" /\ Accepted(route, t, b)
  /\ stage' = "handling"
  /\ asked' = [route |-> route, thread |-> t, body |-> b, targets |-> Targets(route, t, b)]
  /\ UNCHANGED <<lifeVars, bodyVars, bound, config>>

\* 413, a client that left, no configuration (RuntimeError), an invalid body
\* (422) or one that is not authorized, a scope without routes, or the answer
\* of the handler.
Answer ==
  /\ \/ body = "rejected"
     \/ Ended(got) /\ ~ BodyIsWhole
     \/ stage = "middleware" /\ BodyIsWhole /\ get_server_config = NotSet
     \/ stage \in {"resolved", "handling"}
     \/ scope = "websocket"
  /\ BodyLeaves
  /\ stage' = "none" /\ bound' = NotSet /\ config' = NotSet /\ asked' = NothingAsked
  /\ UNCHANGED lifeVars

AppNext ==
  \/ LifespanStep \/ MiddlewareStep \/ ApplicationReads \/ Resolve \/ Answer
  \/ \E sc \in {"http", "websocket"}, length \in Lengths \cup {NoLength, Garbage} :
        Serve(sc, length)
  \/ \E route \in Routes : \E t \in ThreadIds, b \in Bodies(route) : Handle(route, t, b)

AppSpec == AppInit /\ [][AppNext]_appVars

-----------------------------------------------------------------------------
(***************************************************************************)
(* Properties, beside those of the modules extended.                       *)
(***************************************************************************)

\* A handler of an application with a lifespan works with a configuration
\* whose checkpointer is open and stays open until the handler has answered.
HandlersFindOpenCheckpointer ==
  stage = "handling" /\ spans # << >> /\ Savers[config] \notin {"none", "plain"}
    => open[config] > 0

\* What a body says about a checkpoint in one place, None where it says
\* nothing: a Checkpoint, or an id alone.
Selector(said) ==
  IF said \in Checkpoint THEN said
  ELSE [thread_id |-> None, checkpoint_ns |-> None, checkpoint_id |-> said]

\* The checkpoints a body calls for: the selectors each of them has to agree
\* with, and its fields where no selector says anything.  Three selectors are
\* left out:
\*  - the thread in a run's config (execution.py:35, the route's prevails);
\*  - the id in a run's config if the run has an id of its own (37-38);
\*  - the id of a history's checkpoint.  get_history discards it in silence
\*    (threads.py:436-458) and lists from the latest checkpoint, although the
\*    models are to reject input "instead of silently discarding behavior"
\*    (models.py:42).
CalledFor(route, t, b) ==
  LET Latest(ns) == [thread_id |-> t, checkpoint_ns |-> ns, checkpoint_id |-> None]
      For(selectors, default) == [selectors |-> selectors, default |-> default]
      own == Selector(b.checkpoint_id)
      inConfig == [b.config EXCEPT !.thread_id = None,
                                   !.checkpoint_id = IF b.checkpoint_id = None THEN @ ELSE None]
      listing == [Selector(b.checkpoint) EXCEPT !.checkpoint_id = None]
  IN  CASE route = "run" -> {For({own, inConfig}, Latest(Root))}
        [] route = "state" -> {For({Selector(b.checkpoint)}, Latest(Root))}
        [] route = "update" -> {For({own, Selector(b.checkpoint)}, Latest(Root))}
        [] route = "history" ->
             {For({listing}, Latest(Root))}
             \cup IF b.before = None THEN {}
                  ELSE {For({Selector(b.before)}, Latest(Given(listing.checkpoint_ns, Root)))}

\* Every field of the target is what all selectors that give it say, or the
\* default if none does.
Answers(target, call) ==
  \A field \in {"thread_id", "checkpoint_ns", "checkpoint_id"} :
    LET said == {s[field] : s \in call.selectors} \ {None}
    IN  IF said = {} THEN target[field] = call.default[field] ELSE said = {target[field]}

\* An accepted request asks the checkpointer and the graph for exactly the
\* checkpoints its body calls for: in the thread it names, which is then the
\* route's, in the namespace and with the id it names, or else the latest one
\* of the root namespace.
SelectorsHonoured ==
  asked # NothingAsked =>
    LET calls == CalledFor(asked.route, asked.thread, asked.body)
    IN  /\ \A call \in calls : \E target \in asked.targets : Answers(target, call)
        /\ \A target \in asked.targets : \E call \in calls : Answers(target, call)
=============================================================================
