------------------------- MODULE CheckpointTargets -------------------------
(***************************************************************************)
(* models.py, state.py, execution.py and the thread routes: which          *)
(* checkpoints the server asks the checkpointer or a graph for, given the  *)
(* thread of the route and the selectors in the body.                      *)
(***************************************************************************)
CONSTANTS
  ThreadIds, CheckpointIds, Namespaces,
  Root,        \* checkpoint_ns ""
  None,        \* a field that is not given
  Unprintable  \* a reserved field the validation refuses: not a string, too
               \* long, not printable, or an empty id

ASSUME TargetsAssumption ==
  /\ Root \in Namespaces
  /\ {None, Unprintable} \cap (ThreadIds \cup CheckpointIds \cup Namespaces) = {}

Optional(S) == S \cup {None}

\* models.Checkpoint.
Checkpoint ==
  [thread_id: ThreadIds, checkpoint_ns: Namespaces, checkpoint_id: Optional(CheckpointIds)]

\* An id is a string and a Checkpoint is not.
ASSUME SelectorsAssumption == Optional(CheckpointIds) \cap Checkpoint = {}

\* The reserved fields of Config.configurable; without a configurable all of
\* them are None.
Configurable ==
  [thread_id: ThreadIds \cup {None, Unprintable},
   checkpoint_id: CheckpointIds \cup {None, Unprintable},
   checkpoint_ns: Namespaces \cup {None, Unprintable}]

\* RunCreate: unsupported stands for the options of
\* reject_unsupported_options.
RunBody == [checkpoint_id: Optional(CheckpointIds), config: Configurable,
            unsupported: BOOLEAN]
StateBody == [checkpoint: Optional(Checkpoint), subgraphs: BOOLEAN]
UpdateBody == [checkpoint_id: Optional(CheckpointIds), checkpoint: Optional(Checkpoint)]
HistoryBody == [checkpoint: Optional(Checkpoint),
                before: CheckpointIds \cup Optional(Checkpoint)]

\* What a saver or a graph is asked for; None is the latest checkpoint.
Target ==
  [thread_id: ThreadIds, checkpoint_ns: Namespaces, checkpoint_id: Optional(CheckpointIds)]

\* checkpoint_config.
checkpoint_config(t, id, ns) ==
  [thread_id |-> t, checkpoint_ns |-> ns, checkpoint_id |-> id]

Given(value, default) == IF value = None THEN default ELSE value

-----------------------------------------------------------------------------
(***************************************************************************)
(* For each route, whether its body is accepted, and the targets.          *)
(***************************************************************************)
validate_checkpoint_config(config) ==
  \A field \in DOMAIN config : config[field] # Unprintable

RunAccepted(b) == validate_checkpoint_config(b.config) /\ ~ b.unsupported

\* Mutant: the thread of the client's config prevails.
build_runnable_config_merged(t, config, id) ==
  checkpoint_config(Given(config.thread_id, t), Given(id, config.checkpoint_id),
                    Given(config.checkpoint_ns, Root))

build_runnable_config(t, config, id) ==
  checkpoint_config(t, Given(id, config.checkpoint_id), Given(config.checkpoint_ns, Root))

RunTargets(t, b) == {build_runnable_config(t, b.config, b.checkpoint_id)}

\* Mutant: only a checkpoint with an id is compared with the route.
OfRouteWithId(t, checkpoint) ==
  checkpoint # None /\ checkpoint.checkpoint_id # None => checkpoint.thread_id = t

\* A checkpoint in a body belongs to the thread of the route.
OfRoute(t, checkpoint) == checkpoint # None => checkpoint.thread_id = t

StateAccepted(t, b) == ~ b.subgraphs /\ OfRoute(t, b.checkpoint)

StateTargets(t, b) ==
  {IF b.checkpoint = None THEN checkpoint_config(t, None, Root)
   ELSE checkpoint_config(t, b.checkpoint.checkpoint_id, b.checkpoint.checkpoint_ns)}

\* Mutant: a checkpoint without an id does not conflict.
validate_checkpoint_target_leniently(b) ==
  None \notin {b.checkpoint_id, b.checkpoint} =>
    b.checkpoint.checkpoint_id \in {None, b.checkpoint_id}

validate_checkpoint_target(b) ==
  None \notin {b.checkpoint_id, b.checkpoint} =>
    b.checkpoint.checkpoint_id = b.checkpoint_id

UpdateAccepted(t, b) == validate_checkpoint_target(b) /\ OfRoute(t, b.checkpoint)

NoConfig == [thread_id |-> None, checkpoint_id |-> None, checkpoint_ns |-> None]

UpdateTargets(t, b) ==
  {IF b.checkpoint = None THEN build_runnable_config(t, NoConfig, b.checkpoint_id)
   ELSE [build_runnable_config(t, NoConfig, b.checkpoint.checkpoint_id)
           EXCEPT !.checkpoint_ns = b.checkpoint.checkpoint_ns]}

HistoryAccepted(t, b) ==
  OfRoute(t, b.checkpoint) /\ (b.before \in Checkpoint => b.before.thread_id = t)

\* The listing, and the checkpoint it starts before.  Of the body's checkpoint
\* only the namespace is read: its checkpoint_id is not used.
HistoryTargets(t, b) ==
  LET ns == IF b.checkpoint = None THEN Root ELSE b.checkpoint.checkpoint_ns
      before == IF b.before \in Checkpoint
                THEN {checkpoint_config(t, b.before.checkpoint_id, b.before.checkpoint_ns)}
                ELSE IF b.before = None THEN {} ELSE {checkpoint_config(t, b.before, ns)}
  IN  {checkpoint_config(t, None, ns)} \cup before
=============================================================================
