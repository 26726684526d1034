------------------------------ MODULE Lifespan ------------------------------
(***************************************************************************)
(* factory.py: langgraph_lifespan exposes a configuration in the state of  *)
(* an application and keeps its checkpointer open, through                 *)
(* _checkpointer_lifespan, for as long.  Lifespans of one application      *)
(* nest, as async with statements do.  dependencies.py: get_server_config  *)
(* reads what is exposed.                                                  *)
(***************************************************************************)
EXTENDS Integers, Sequences, SequencesExt, FiniteSets

CONSTANTS
  Configs,    \* server configurations
  NotSet,     \* app.state has no langgraph_config: the sentinel
  Savers,     \* the checkpointer of each configuration
  MaxNested   \* bound: lifespans within lifespans

\* none: no checkpointer.  plain: nothing to open or close.  closing: it has
\* aclose.  context: an async context manager.  alien: one that does not
\* return itself.
SaverKinds == {"none", "plain", "closing", "context", "alien"}

ASSUME SaversAssumption == Savers \in [Configs -> SaverKinds] /\ NotSet \notin Configs

VARIABLES
  given,    \* what the application had exposed before any lifespan
  exposed,  \* app.state.langgraph_config
  spans,    \* the lifespans under way, the innermost last
  open      \* contexts entered and not left, or aclose to be called, by configuration

lifeVars == <<given, exposed, spans, open>>

Exposable == Configs \cup {NotSet}

Span == [config: Configs, previous: Exposable, stage: {"entering", "running", "leaving"}]

LifeTypeOK ==
  /\ given \in Exposable /\ exposed \in Exposable
  /\ spans \in Seq(Span) /\ open \in [Configs -> Nat]

LifeInit ==
  /\ given \in Exposable /\ exposed = given
  /\ spans = << >> /\ open = [c \in Configs |-> 0]

Top == Last(spans)
TopKind == Savers[Top.config]
WithTop(stage) == Front(spans) \o <<[Top EXCEPT !.stage = stage]>>

InTop(stage) == spans # << >> /\ Top.stage = stage

\* The application is between the start and the end of its lifespans.
Running == spans = << >> \/ InTop("running")

-----------------------------------------------------------------------------
\* Mutant: the application runs before the checkpointer is open.
StartsEarly(c) ==
  /\ Running /\ Len(spans) < MaxNested
  /\ exposed' = c
  /\ spans' = Append(spans, [config |-> c, previous |-> exposed, stage |-> "running"])
  /\ open' = IF Savers[c] = "closing" THEN [open EXCEPT ![c] = @ + 1] ELSE open
  /\ UNCHANGED given

Starts(c) ==
  /\ Running /\ Len(spans) < MaxNested
  /\ exposed' = c
  /\ LET awaits == Savers[c] \in {"context", "alien"}
     IN  spans' = Append(spans, [config |-> c, previous |-> exposed,
                                 stage |-> IF awaits THEN "entering" ELSE "running"])
  /\ open' = IF Savers[c] = "closing" THEN [open EXCEPT ![c] = @ + 1] ELSE open
  /\ UNCHANGED given

\* Mutant: a context that is not the checkpointer is not left.
EntersUnchecked ==
  /\ InTop("entering")
  /\ IF TopKind = "context"
     THEN spans' = WithTop("running") /\ UNCHANGED exposed
     ELSE spans' = Front(spans) /\ exposed' = Top.previous
  /\ open' = [open EXCEPT ![Top.config] = @ + 1]
  /\ UNCHANGED given

\* __aenter__ returns.  If it is not the checkpointer itself, RuntimeError is
\* raised within the context, which is left.
Enters ==
  /\ InTop("entering")
  /\ spans' = WithTop(IF TopKind = "context" THEN "running" ELSE "leaving")
  /\ open' = [open EXCEPT ![Top.config] = @ + 1]
  /\ UNCHANGED <<given, exposed>>

\* Mutant: what was exposed before is forgotten.
RestoreNothing == exposed' = NotSet /\ spans' = Front(spans)

\* The finally clause of langgraph_lifespan: delattr, or the previous value.
Restore == exposed' = Top.previous /\ spans' = Front(spans)

\* __aenter__ raises.
EnterFails ==
  /\ InTop("entering") /\ Restore
  /\ UNCHANGED <<given, open>>

\* The body of the lifespan ends, by itself or by an exception.
Leaves ==
  /\ InTop("running")
  /\ IF TopKind \in {"none", "plain"}
     THEN Restore
     ELSE spans' = WithTop("leaving") /\ UNCHANGED exposed
  /\ UNCHANGED <<given, open>>

\* __aexit__ or aclose returns or raises.
Closes ==
  /\ InTop("leaving") /\ Restore
  /\ open' = [open EXCEPT ![Top.config] = @ - 1]
  /\ UNCHANGED given

-----------------------------------------------------------------------------
Holds(s, c) ==
  s.config = c /\ s.stage # "entering" /\ Savers[c] \notin {"none", "plain"}

\* The places of the lifespans that use the checkpointer of c.
Using(c) == {i \in DOMAIN spans : Holds(spans[i], c)}

\* A checkpointer is opened once for every lifespan that uses it, and closed
\* when that lifespan ends, however it ends.
OpenWhileUsed == \A c \in Configs : open[c] = Cardinality(Using(c))

\* The application exposes the innermost lifespan's configuration and, once
\* all have ended or failed, what it exposed at first.
ExposesInnermost == exposed = IF spans = << >> THEN given ELSE Top.config
=============================================================================
