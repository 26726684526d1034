-------------------------- MODULE ApplicationProofs --------------------------
(***************************************************************************)
(* Proofs about Application: the requests of any clients to an application *)
(* with any lifespans, configurations and limits.                          *)
(***************************************************************************)
EXTENDS Application, FiniteSumsProofs, FiniteSetTheorems, SequenceTheorems, TLAPS

-----------------------------------------------------------------------------
(***************************************************************************)
(* Which checkpoints a request is about                                    *)
(***************************************************************************)

\* The request a handler works on is one that was accepted.
AskedInv ==
  \/ asked = NothingAsked
  \/ \E route \in Routes : \E t \in ThreadIds, b \in Bodies(route) :
        /\ Accepted(route, t, b)
        /\ asked = [route |-> route, thread |-> t, body |-> b, targets |-> Targets(route, t, b)]

\* What is asked is set by Handle, for an accepted body, and cleared by Answer.
LEMMA AskedInvStep == AskedInv /\ [AppNext]_appVars => AskedInv'
<1> SUFFICES ASSUME AskedInv, [AppNext]_appVars PROVE AskedInv'
  OBVIOUS
<1>1. CASE UNCHANGED asked
  BY <1>1 DEF AskedInv
<1>2. CASE Answer
  BY <1>2 DEF Answer, AskedInv
<1>3. ASSUME NEW route \in Routes, NEW t \in ThreadIds, NEW b \in Bodies(route),
             Handle(route, t, b)
      PROVE  AskedInv'
  BY <1>3 DEF Handle, AskedInv
<1> QED BY <1>1, <1>2, <1>3 DEF AppNext, appVars, LifespanStep, MiddlewareStep,
        ApplicationReads, Resolve, Serve

\* Every request that is handled was accepted.
LEMMA AskedInvariance == AppSpec => []AskedInv
<1>1. AppInit => AskedInv
  BY DEF AppInit, AskedInv
<1> QED BY <1>1, AskedInvStep, PTL DEF AppSpec

\* Targets and calls that match each other.
Meet(targets, calls) ==
  /\ \A call \in calls : \E target \in targets : Answers(target, call)
  /\ \A target \in targets : \E call \in calls : Answers(target, call)

\* Where two selectors agree, a target with what they say, or else with the
\* default, answers a call.
LEMMA TwoSelectorsAnswered ==
  ASSUME NEW one, NEW two, NEW default, NEW target,
         \A field \in {"thread_id", "checkpoint_ns", "checkpoint_id"} :
           \/ one[field] = None /\ two[field] = None /\ target[field] = default[field]
           \/ one[field] # None /\ two[field] = None /\ target[field] = one[field]
           \/ one[field] = None /\ two[field] # None /\ target[field] = two[field]
           \/ one[field] # None /\ two[field] = one[field] /\ target[field] = one[field]
  PROVE  Answers(target, [selectors |-> {one, two}, default |-> default])
<1> DEFINE call == [selectors |-> {one, two}, default |-> default]
<1>1. call.selectors = {one, two} /\ call.default = default
  OBVIOUS
<1> HIDE DEF call
<1> SUFFICES ASSUME NEW field \in {"thread_id", "checkpoint_ns", "checkpoint_id"}
             PROVE  LET said == {s[field] : s \in call.selectors} \ {None}
                    IN  IF said = {} THEN target[field] = call.default[field]
                        ELSE said = {target[field]}
  BY DEF Answers, call
<1>2. {s[field] : s \in call.selectors} = {one[field], two[field]}
  BY <1>1
<1> QED BY <1>1, <1>2

\* The same of one selector.
LEMMA SelectorAnswered ==
  ASSUME NEW one, NEW default, NEW target,
         \A field \in {"thread_id", "checkpoint_ns", "checkpoint_id"} :
           target[field] = IF one[field] = None THEN default[field] ELSE one[field]
  PROVE  Answers(target, [selectors |-> {one}, default |-> default])
<1>1. {one, one} = {one}
  OBVIOUS
<1> QED BY <1>1, TwoSelectorsAnswered

\* A single target that answers a single call.
LEMMA OneMeetsOne ==
  ASSUME NEW target, NEW call, Answers(target, call)
  PROVE  Meet({target}, {call})
BY DEF Meet

\* An id says nothing of the thread and the namespace; a Checkpoint, unlike
\* None and an id, says both.
LEMMA SelectorForms ==
  /\ \A id \in Optional(CheckpointIds) :
       /\ Selector(id).thread_id = None /\ Selector(id).checkpoint_ns = None
       /\ Selector(id).checkpoint_id = id
  /\ \A c \in Checkpoint :
       /\ Selector(c) = c /\ c # None
       /\ c.thread_id # None /\ c.checkpoint_ns # None
<1>1. None \notin ThreadIds /\ None \notin Namespaces
  BY TargetsAssumption
<1>2. \A c \in Checkpoint : c.thread_id \in ThreadIds /\ c.checkpoint_ns \in Namespaces
  BY DEF Checkpoint
<1>3. \A id \in Optional(CheckpointIds) : id \notin Checkpoint
  BY SelectorsAssumption
<1>4. None \in Optional(CheckpointIds)
  BY DEF Optional
<1> QED BY <1>1, <1>2, <1>3, <1>4 DEF Selector

\* A run is about its own checkpoint_id, else the one in its config, and about
\* the namespace in its config.
LEMMA RunIsAboutItsSelectors ==
  ASSUME NEW t \in ThreadIds, NEW b \in RunBody
  PROVE  Meet(RunTargets(t, b), CalledFor("run", t, b))
<1> DEFINE own == Selector(b.checkpoint_id)
           inConfig == [b.config EXCEPT !.thread_id = None,
                          !.checkpoint_id = IF b.checkpoint_id = None THEN @ ELSE None]
           default == [thread_id |-> t, checkpoint_ns |-> Root, checkpoint_id |-> None]
           target == build_runnable_config(t, b.config, b.checkpoint_id)
<1>1. b.config \in Configurable /\ b.checkpoint_id \in Optional(CheckpointIds)
  BY DEF RunBody
<1>2. /\ inConfig.thread_id = None /\ inConfig.checkpoint_ns = b.config.checkpoint_ns
      /\ inConfig.checkpoint_id = IF b.checkpoint_id = None THEN b.config.checkpoint_id ELSE None
  BY <1>1 DEF Configurable
<1>3. own.thread_id = None /\ own.checkpoint_ns = None /\ own.checkpoint_id = b.checkpoint_id
  BY <1>1, SelectorForms
<1>4. /\ target.thread_id = t
      /\ target.checkpoint_ns = Given(b.config.checkpoint_ns, Root)
      /\ target.checkpoint_id = Given(b.checkpoint_id, b.config.checkpoint_id)
  BY DEF build_runnable_config, checkpoint_config
<1>5. /\ default.thread_id = t /\ default.checkpoint_ns = Root /\ default.checkpoint_id = None
  OBVIOUS
<1>6. RunTargets(t, b) = {target}
  BY DEF RunTargets
<1>7. CalledFor("run", t, b) = {[selectors |-> {own, inConfig}, default |-> default]}
  BY DEF CalledFor
<1> HIDE DEF own, inConfig, default, target
<1>8. Answers(target, [selectors |-> {own, inConfig}, default |-> default])
  BY <1>2, <1>3, <1>4, <1>5, TwoSelectorsAnswered DEF Given
<1> QED BY <1>6, <1>7, <1>8, OneMeetsOne

\* A state is read at the checkpoint of the body, which is the route's.
LEMMA StateIsAboutItsSelector ==
  ASSUME NEW t \in ThreadIds, NEW b \in StateBody, StateAccepted(t, b)
  PROVE  Meet(StateTargets(t, b), CalledFor("state", t, b))
<1> DEFINE one == Selector(b.checkpoint)
           default == [thread_id |-> t, checkpoint_ns |-> Root, checkpoint_id |-> None]
           target == IF b.checkpoint = None THEN checkpoint_config(t, None, Root)
                     ELSE checkpoint_config(t, b.checkpoint.checkpoint_id, b.checkpoint.checkpoint_ns)
<1>1. StateTargets(t, b) = {target}
  BY DEF StateTargets
<1>2. CalledFor("state", t, b) = {[selectors |-> {one}, default |-> default]}
  BY DEF CalledFor
<1>3. Answers(target, [selectors |-> {one}, default |-> default])
  <2>1. CASE b.checkpoint = None
    <3>1. one.thread_id = None /\ one.checkpoint_ns = None /\ one.checkpoint_id = None
      BY <2>1, SelectorForms DEF Optional
    <3>2. target = default
      BY <2>1 DEF checkpoint_config
    <3> HIDE DEF one, default, target
    <3> QED BY <3>1, <3>2, SelectorAnswered
  <2>2. CASE b.checkpoint \in Checkpoint
    <3>1. one = b.checkpoint /\ b.checkpoint # None /\ one.thread_id # None /\ one.checkpoint_ns # None
      BY <2>2, SelectorForms
    <3>2. one.thread_id = t
      BY <3>1 DEF StateAccepted, OfRoute
    <3>3. /\ target.thread_id = t /\ target.checkpoint_ns = one.checkpoint_ns
          /\ target.checkpoint_id = one.checkpoint_id
      BY <3>1 DEF checkpoint_config
    <3>4. default.checkpoint_id = None
      OBVIOUS
    <3> HIDE DEF one, default, target
    <3> QED BY <3>1, <3>2, <3>3, <3>4, SelectorAnswered
  <2> QED BY <2>1, <2>2 DEF StateBody, Optional
<1> HIDE DEF one, default, target
<1> QED BY <1>1, <1>2, <1>3, OneMeetsOne

\* A state is updated at the one checkpoint that both selectors name.
LEMMA UpdateIsAboutItsSelectors ==
  ASSUME NEW t \in ThreadIds, NEW b \in UpdateBody, UpdateAccepted(t, b)
  PROVE  Meet(UpdateTargets(t, b), CalledFor("update", t, b))
<1> DEFINE own == Selector(b.checkpoint_id)
           one == Selector(b.checkpoint)
           default == [thread_id |-> t, checkpoint_ns |-> Root, checkpoint_id |-> None]
           target == IF b.checkpoint = None THEN build_runnable_config(t, NoConfig, b.checkpoint_id)
                     ELSE [build_runnable_config(t, NoConfig, b.checkpoint.checkpoint_id)
                             EXCEPT !.checkpoint_ns = b.checkpoint.checkpoint_ns]
<1>1. UpdateTargets(t, b) = {target}
  BY DEF UpdateTargets
<1>2. CalledFor("update", t, b) = {[selectors |-> {own, one}, default |-> default]}
  BY DEF CalledFor
<1>3. own.thread_id = None /\ own.checkpoint_ns = None /\ own.checkpoint_id = b.checkpoint_id
  BY SelectorForms DEF UpdateBody
<1>4. /\ default.thread_id = t /\ default.checkpoint_ns = Root /\ default.checkpoint_id = None
  OBVIOUS
<1>5. Answers(target, [selectors |-> {own, one}, default |-> default])
  <2>1. CASE b.checkpoint = None
    <3>1. one.thread_id = None /\ one.checkpoint_ns = None /\ one.checkpoint_id = None
      BY <2>1, SelectorForms DEF Optional
    <3>2. /\ target.thread_id = t /\ target.checkpoint_ns = Root
          /\ target.checkpoint_id = b.checkpoint_id
      BY <2>1 DEF build_runnable_config, checkpoint_config, NoConfig, Given
    <3> HIDE DEF own, one, default, target
    <3> QED BY <1>3, <1>4, <3>1, <3>2, TwoSelectorsAnswered
  <2>2. CASE b.checkpoint \in Checkpoint
    <3>1. one = b.checkpoint /\ b.checkpoint # None /\ one.thread_id # None /\ one.checkpoint_ns # None
      BY <2>2, SelectorForms
    <3>2. one.thread_id = t /\ b.checkpoint_id \in {None, one.checkpoint_id}
      BY <3>1 DEF UpdateAccepted, OfRoute, validate_checkpoint_target
    <3>3. /\ target.thread_id = t /\ target.checkpoint_ns = one.checkpoint_ns
          /\ target.checkpoint_id = one.checkpoint_id
      BY <3>1 DEF build_runnable_config, checkpoint_config, NoConfig, Given
    <3> HIDE DEF own, one, default, target
    <3> QED BY <1>3, <1>4, <3>1, <3>2, <3>3, TwoSelectorsAnswered
  <2> QED BY <2>1, <2>2 DEF UpdateBody, Optional
<1> HIDE DEF own, one, default, target
<1> QED BY <1>1, <1>2, <1>5, OneMeetsOne

\* A history lists the namespace of its checkpoint, which is the route's, and
\* starts before the checkpoint that before names, in either form.
LEMMA HistoryIsAboutItsSelectors ==
  ASSUME NEW t \in ThreadIds, NEW b \in HistoryBody, HistoryAccepted(t, b)
  PROVE  Meet(HistoryTargets(t, b), CalledFor("history", t, b))
<1> DEFINE ns == IF b.checkpoint = None THEN Root ELSE b.checkpoint.checkpoint_ns
           all == checkpoint_config(t, None, ns)
           listing == [Selector(b.checkpoint) EXCEPT !.checkpoint_id = None]
           latest == [thread_id |-> t, checkpoint_ns |-> Root, checkpoint_id |-> None]
           inListing == [thread_id |-> t, checkpoint_ns |-> ns, checkpoint_id |-> None]
           listed == [selectors |-> {listing}, default |-> latest]
           begun == [selectors |-> {Selector(b.before)}, default |-> inListing]
           first == IF b.before \in Checkpoint
                    THEN checkpoint_config(t, b.before.checkpoint_id, b.before.checkpoint_ns)
                    ELSE checkpoint_config(t, b.before, ns)
<1>1. /\ all.thread_id = t /\ all.checkpoint_ns = ns /\ all.checkpoint_id = None
  BY DEF checkpoint_config
<1>2. /\ inListing.thread_id = t /\ inListing.checkpoint_ns = ns /\ inListing.checkpoint_id = None
      /\ latest.thread_id = t /\ latest.checkpoint_ns = Root /\ latest.checkpoint_id = None
  OBVIOUS
<1>3. /\ listing.thread_id \in {None, t} /\ listing.checkpoint_id = None
      /\ ns = IF listing.checkpoint_ns = None THEN Root ELSE listing.checkpoint_ns
  <2>1. CASE b.checkpoint = None
    <3>1. listing.thread_id = None /\ listing.checkpoint_ns = None /\ listing.checkpoint_id = None
      BY <2>1, SelectorForms, SelectorsAssumption DEF Selector, Optional
    <3> QED BY <2>1, <3>1
  <2>2. CASE b.checkpoint \in Checkpoint
    <3>1. Selector(b.checkpoint) = b.checkpoint /\ b.checkpoint # None
          /\ b.checkpoint.checkpoint_ns # None
      BY <2>2, SelectorForms
    <3>2. /\ listing.thread_id = b.checkpoint.thread_id
          /\ listing.checkpoint_ns = b.checkpoint.checkpoint_ns /\ listing.checkpoint_id = None
      BY <2>2, <3>1 DEF Checkpoint
    <3>3. b.checkpoint.thread_id = t
      BY <3>1 DEF HistoryAccepted, OfRoute
    <3> QED BY <3>1, <3>2, <3>3
  <2> QED BY <2>1, <2>2 DEF HistoryBody, Optional
<1>4. Given(listing.checkpoint_ns, Root) = ns
  BY <1>3 DEF Given
<1>5. HistoryTargets(t, b) = {all} \cup IF b.before = None THEN {} ELSE {first}
  <2>1. None \notin Checkpoint
    BY SelectorsAssumption DEF Optional
  <2> QED BY <2>1 DEF HistoryTargets
<1>6. CalledFor("history", t, b) = {listed} \cup IF b.before = None THEN {} ELSE {begun}
  BY <1>4 DEF CalledFor
<1>7. Answers(all, listed)
  <2> HIDE DEF all, listing, latest, ns
  <2> QED BY <1>1, <1>2, <1>3, SelectorAnswered
<1>8. ASSUME b.before # None PROVE Answers(first, begun)
  <2> DEFINE one == Selector(b.before)
  <2>1. CASE b.before \in Checkpoint
    <3>1. one = b.before /\ one.thread_id # None /\ one.checkpoint_ns # None
      BY <2>1, SelectorForms
    <3>2. /\ first.thread_id = t /\ first.checkpoint_ns = b.before.checkpoint_ns
          /\ first.checkpoint_id = b.before.checkpoint_id /\ b.before.thread_id = t
      BY <2>1 DEF checkpoint_config, HistoryAccepted
    <3>3. Answers(first, [selectors |-> {one}, default |-> inListing])
      <4> HIDE DEF one, inListing, first
      <4> QED BY <1>2, <3>1, <3>2, SelectorAnswered
    <3> QED BY <3>3
  <2>2. CASE b.before \notin Checkpoint
    <3>1. b.before \in Optional(CheckpointIds)
      BY <2>2, <1>8 DEF HistoryBody, Optional
    <3>2. one.thread_id = None /\ one.checkpoint_ns = None /\ one.checkpoint_id = b.before
      BY <3>1, SelectorForms
    <3>3. /\ first.thread_id = t /\ first.checkpoint_ns = ns /\ first.checkpoint_id = b.before
      BY <2>2 DEF checkpoint_config
    <3>4. Answers(first, [selectors |-> {one}, default |-> inListing])
      <4> HIDE DEF one, inListing, first, ns
      <4> QED BY <1>2, <1>8, <3>2, <3>3, SelectorAnswered
    <3> QED BY <3>4
  <2> QED BY <2>1, <2>2
<1> HIDE DEF all, first, listed, begun
<1> QED BY <1>5, <1>6, <1>7, <1>8 DEF Meet

\* An accepted request asks for exactly the checkpoints its body calls for: the
\* guards on threads and on double selectors let no other body pass.
THEOREM SelectorsAreHonoured == AppSpec => []SelectorsHonoured
<1>1. ASSUME AskedInv PROVE SelectorsHonoured
  <2> SUFFICES ASSUME asked # NothingAsked PROVE SelectorsHonoured
    BY DEF SelectorsHonoured
  <2> PICK route \in Routes : \E t \in ThreadIds, b \in Bodies(route) :
        /\ Accepted(route, t, b)
        /\ asked = [route |-> route, thread |-> t, body |-> b, targets |-> Targets(route, t, b)]
    BY <1>1 DEF AskedInv
  <2> PICK t \in ThreadIds, b \in Bodies(route) :
        /\ Accepted(route, t, b)
        /\ asked = [route |-> route, thread |-> t, body |-> b, targets |-> Targets(route, t, b)]
    OBVIOUS
  <2> SUFFICES Meet(Targets(route, t, b), CalledFor(route, t, b))
    <3>1. /\ asked.route = route /\ asked.thread = t /\ asked.body = b
          /\ asked.targets = Targets(route, t, b)
      OBVIOUS
    <3> QED BY <3>1 DEF SelectorsHonoured, Meet
  <2>1. CASE route = "run"
    <3>1. b \in RunBody /\ Targets(route, t, b) = RunTargets(t, b)
      BY <2>1 DEF Bodies, Targets
    <3> QED BY <2>1, <3>1, RunIsAboutItsSelectors
  <2>2. CASE route = "state"
    <3>1. b \in StateBody /\ StateAccepted(t, b) /\ Targets(route, t, b) = StateTargets(t, b)
      BY <2>2 DEF Bodies, Accepted, Targets
    <3> QED BY <2>2, <3>1, StateIsAboutItsSelector
  <2>3. CASE route = "update"
    <3>1. b \in UpdateBody /\ UpdateAccepted(t, b) /\ Targets(route, t, b) = UpdateTargets(t, b)
      BY <2>3 DEF Bodies, Accepted, Targets
    <3> QED BY <2>3, <3>1, UpdateIsAboutItsSelectors
  <2>4. CASE route = "history"
    <3>1. b \in HistoryBody /\ HistoryAccepted(t, b) /\ Targets(route, t, b) = HistoryTargets(t, b)
      BY <2>4 DEF Bodies, Accepted, Targets
    <3> QED BY <2>4, <3>1, HistoryIsAboutItsSelectors
  <2> QED BY <2>1, <2>2, <2>3, <2>4 DEF Routes
<1> QED BY <1>1, AskedInvariance, PTL

-----------------------------------------------------------------------------
(***************************************************************************)
(* Lifespans                                                               *)
(***************************************************************************)

\* A lifespan keeps what was exposed when it began, which is what the one
\* around it exposes; while it lasts, the one around it is in its body.
Nested ==
  /\ exposed \in Exposable /\ given \in Exposable /\ spans \in Seq(Span)
  /\ ExposesInnermost
  /\ \A i \in 1..Len(spans) :
        spans[i].previous = IF i = 1 THEN given ELSE spans[i - 1].config
  /\ \A i \in 1..(Len(spans) - 1) : spans[i].stage = "running"

\* Only a context is entered; only a checkpointer that was opened is left.
Staged ==
  \A i \in 1..Len(spans) :
    /\ spans[i].stage = "entering" => Savers[spans[i].config] \in {"context", "alien"}
    /\ spans[i].stage = "leaving" => Savers[spans[i].config] \notin {"none", "plain"}

LifeInv == Nested /\ Staged /\ open \in [Configs -> Nat] /\ OpenWhileUsed

\* The elements of the sequence that is left when the innermost lifespan ends.
LEMMA FrontOfSpans ==
  ASSUME spans \in Seq(Span), spans # << >>
  PROVE  /\ Len(spans) \in Nat \ {0}
         /\ Front(spans) \in Seq(Span)
         /\ Len(Front(spans)) = Len(spans) - 1
         /\ \A i \in 1..(Len(spans) - 1) : Front(spans)[i] = spans[i]
         /\ Top = spans[Len(spans)] /\ Top \in Span
<1>1. Len(spans) \in Nat \ {0}
  BY EmptySeq, LenProperties
<1>2. Front(spans) = SubSeq(spans, 1, Len(spans) - 1)
  BY DEF Front
<1>3. \A i \in 1..Len(spans) : spans[i] \in Span
  BY ElementOfSeq, Zenon
<1>4. PICK n \in Nat : Len(spans) = n + 1
  <2>1. Len(spans) - 1 \in Nat /\ Len(spans) = (Len(spans) - 1) + 1
    BY <1>1
  <2> QED BY <2>1, Zenon
<1>5. Front(spans) = SubSeq(spans, 1, n)
  BY <1>2, <1>4
<1>6. \A i \in 1..n : spans[i] \in Span
  BY <1>3, <1>4
<1>7. /\ SubSeq(spans, 1, n) \in Seq(Span)
      /\ Len(SubSeq(spans, 1, n)) = IF 1 <= n THEN n - 1 + 1 ELSE 0
      /\ \A i \in 1..(n - 1 + 1) : SubSeq(spans, 1, n)[i] = spans[1 + i - 1]
  <2>1. 1 \in Int /\ n \in Int
    OBVIOUS
  <2> QED BY <1>6, <2>1, SubSeqProperties
<1>8. /\ Front(spans) \in Seq(Span) /\ Len(Front(spans)) = Len(spans) - 1
      /\ \A i \in 1..(Len(spans) - 1) : Front(spans)[i] = spans[i]
  <2>1. /\ Len(Front(spans)) = n
        /\ \A i \in 1..n : Front(spans)[i] = spans[i]
    BY <1>5, <1>7
  <2> QED BY <1>4, <1>5, <1>7, <2>1
<1> QED BY <1>1, <1>3, <1>8 DEF Top, Last

\* A change of stage changes nothing else of the innermost lifespan.
LEMMA WithTopOfSpans ==
  ASSUME spans \in Seq(Span), spans # << >>, NEW st \in {"entering", "running", "leaving"}
  PROVE  /\ WithTop(st) \in Seq(Span)
         /\ Len(WithTop(st)) = Len(spans)
         /\ \A i \in 1..(Len(spans) - 1) : WithTop(st)[i] = spans[i]
         /\ WithTop(st)[Len(spans)] = [Top EXCEPT !.stage = st]
<1> DEFINE top == [Top EXCEPT !.stage = st]
<1>1. top \in Span
  BY FrontOfSpans DEF Span
<1> HIDE DEF top
<1>2. WithTop(st) = Front(spans) \o <<top>>
  BY DEF WithTop, top
<1>3. <<top>> \in Seq(Span) /\ Len(<<top>>) = 1 /\ <<top>>[1] = top
  BY <1>1
<1>4. /\ WithTop(st) \in Seq(Span) /\ Len(WithTop(st)) = Len(spans)
      /\ \A i \in 1..Len(spans) :
           WithTop(st)[i] = IF i <= Len(spans) - 1 THEN Front(spans)[i]
                            ELSE <<top>>[i - (Len(spans) - 1)]
  BY <1>2, <1>3, FrontOfSpans, ConcatProperties
<1>5. WithTop(st)[Len(spans)] = top
  BY <1>3, <1>4, FrontOfSpans
<1>6. \A i \in 1..(Len(spans) - 1) : WithTop(st)[i] = spans[i]
  BY <1>4, FrontOfSpans
<1> QED BY <1>4, <1>5, <1>6 DEF top

\* A lifespan that begins in the body of the others is nested in them.
LEMMA NestedBegins ==
  ASSUME Nested, Running, NEW c \in Configs, NEW st \in {"entering", "running", "leaving"},
         exposed' = c, UNCHANGED given,
         spans' = Append(spans, [config |-> c, previous |-> exposed, stage |-> st])
  PROVE  Nested'
<1> DEFINE s == [config |-> c, previous |-> exposed, stage |-> st]
<1>1. s \in Span /\ s.config = c /\ s.previous = exposed
  BY DEF Nested, Span, Exposable
<1> HIDE DEF s
<1>2. spans' = Append(spans, s)
  BY DEF s
<1>3. /\ spans' \in Seq(Span) /\ Len(spans') = Len(spans) + 1 /\ Len(spans) \in Nat
      /\ \A i \in 1..Len(spans) : spans'[i] = spans[i]
      /\ spans'[Len(spans) + 1] = s
  BY <1>1, <1>2 DEF Nested
<1>4. spans' # << >> /\ Top' = s
  BY <1>3 DEF Top, Last
<1>5. \A i \in 1..Len(spans') :
        spans'[i].previous = IF i = 1 THEN given ELSE spans'[i - 1].config
  <2> SUFFICES ASSUME NEW i \in 1..Len(spans')
               PROVE  spans'[i].previous = IF i = 1 THEN given ELSE spans'[i - 1].config
    OBVIOUS
  <2>1. CASE i \in 1..Len(spans)
    <3>1. spans'[i] = spans[i] /\ (i # 1 => spans'[i - 1] = spans[i - 1])
      BY <1>3, <2>1
    <3> QED BY <3>1, <2>1 DEF Nested
  <2>2. CASE i = Len(spans) + 1
    <3>1. CASE spans = << >>
      BY <1>1, <1>3, <2>2, <3>1 DEF Nested, ExposesInnermost
    <3>2. CASE spans # << >>
      <4>1. exposed = spans[Len(spans)].config /\ Len(spans) \in Nat \ {0}
        BY <3>2, FrontOfSpans DEF Nested, ExposesInnermost
      <4> QED BY <1>1, <1>3, <2>2, <4>1
    <3> QED BY <3>1, <3>2
  <2> QED BY <1>3, <2>1, <2>2
<1>6. \A i \in 1..(Len(spans') - 1) : spans'[i].stage = "running"
  <2>1. spans # << >> => spans[Len(spans)].stage = "running"
    BY FrontOfSpans DEF Nested, Running, InTop
  <2>2. spans = << >> => Len(spans) = 0
    BY DEF Nested
  <2> QED BY <1>3, <2>1, <2>2 DEF Nested
<1> QED BY <1>1, <1>3, <1>4, <1>5, <1>6 DEF Nested, ExposesInnermost, Exposable

\* When the innermost lifespan ends, the one around it is exposed again.
LEMMA NestedEnds ==
  ASSUME Nested, spans # << >>, Restore, UNCHANGED given
  PROVE  Nested'
<1>1. /\ Len(spans) \in Nat \ {0} /\ spans' \in Seq(Span) /\ Len(spans') = Len(spans) - 1
      /\ \A i \in 1..(Len(spans) - 1) : spans'[i] = spans[i]
      /\ exposed' = spans[Len(spans)].previous /\ spans[Len(spans)] \in Span
  BY FrontOfSpans DEF Nested, Restore
<1>2. exposed' \in Exposable
  BY <1>1 DEF Span
<1>3. \A i \in 1..Len(spans') :
        spans'[i].previous = IF i = 1 THEN given ELSE spans'[i - 1].config
  <2> SUFFICES ASSUME NEW i \in 1..Len(spans')
               PROVE  spans'[i].previous = IF i = 1 THEN given ELSE spans'[i - 1].config
    OBVIOUS
  <2>1. i \in 1..Len(spans) /\ spans'[i] = spans[i] /\ (i # 1 => spans'[i - 1] = spans[i - 1])
    BY <1>1
  <2> QED BY <2>1 DEF Nested
<1>4. \A i \in 1..(Len(spans') - 1) : spans'[i].stage = "running"
  <2>1. \A i \in 1..(Len(spans') - 1) : i \in 1..(Len(spans) - 1) /\ spans'[i] = spans[i]
    BY <1>1
  <2> QED BY <2>1 DEF Nested
<1>5. ExposesInnermost'
  <2>1. CASE Len(spans) = 1
    <3>1. spans' = << >>
      BY <1>1, <2>1, EmptySeq
    <3>2. exposed' = given
      BY <1>1, <2>1 DEF Nested
    <3> QED BY <3>1, <3>2 DEF ExposesInnermost
  <2>2. CASE Len(spans) # 1
    <3>1. spans' # << >> /\ Top' = spans[Len(spans) - 1]
      BY <1>1, <2>2 DEF Top, Last
    <3>2. exposed' = spans[Len(spans) - 1].config
      BY <1>1, <2>2 DEF Nested
    <3> QED BY <3>1, <3>2 DEF ExposesInnermost
  <2> QED BY <2>1, <2>2
<1> QED BY <1>1, <1>2, <1>3, <1>4, <1>5 DEF Nested

\* A change of the innermost lifespan's stage leaves the nesting as it is.
LEMMA NestedGoesOn ==
  ASSUME Nested, spans # << >>, NEW st \in {"entering", "running", "leaving"},
         spans' = WithTop(st), UNCHANGED <<given, exposed>>
  PROVE  Nested'
<1>1. /\ Len(spans) \in Nat \ {0} /\ spans' \in Seq(Span) /\ Len(spans') = Len(spans)
      /\ \A i \in 1..(Len(spans) - 1) : spans'[i] = spans[i]
      /\ spans'[Len(spans)] = [spans[Len(spans)] EXCEPT !.stage = st]
      /\ spans[Len(spans)] \in Span
  BY FrontOfSpans, WithTopOfSpans DEF Nested
<1>2. \A i \in 1..Len(spans) :
        spans'[i].previous = spans[i].previous /\ spans'[i].config = spans[i].config
  BY <1>1 DEF Span
<1>3. \A i \in 1..Len(spans') :
        spans'[i].previous = IF i = 1 THEN given ELSE spans'[i - 1].config
  BY <1>1, <1>2 DEF Nested
<1>4. spans' # << >> /\ Top' = spans'[Len(spans)] /\ Top = spans[Len(spans)]
  BY <1>1 DEF Top, Last
<1>5. ExposesInnermost'
  BY <1>1, <1>2, <1>4 DEF Nested, ExposesInnermost
<1> QED BY <1>1, <1>3, <1>5 DEF Nested

One(held) == IF held THEN 1 ELSE 0

\* The lifespans that use a checkpointer can be counted.
LEMMA UsingIsFinite ==
  ASSUME spans \in Seq(Span), NEW c
  PROVE  IsFiniteSet(Using(c)) /\ Using(c) \subseteq 1..Len(spans)
<1>1. DOMAIN spans = 1..Len(spans) /\ Len(spans) \in Nat
  BY LenProperties
<1>2. Using(c) \subseteq 1..Len(spans)
  BY <1>1 DEF Using
<1>3. IsFiniteSet(1..Len(spans))
  BY <1>1, FS_Interval
<1> QED BY <1>2, <1>3, FS_Subset

\* The innermost lifespan is one of them if it holds the checkpointer.
LEMMA TopCounts ==
  ASSUME spans \in Seq(Span), spans # << >>, NEW c
  PROVE  IsFiniteSet(Using(c)) /\ (Len(spans) \in Using(c) <=> Holds(Top, c))
<1>1. Len(spans) \in DOMAIN spans /\ Top = spans[Len(spans)]
  <2>1. Len(spans) \in Nat \ {0} /\ Top = spans[Len(spans)]
    BY FrontOfSpans, Zenon
  <2>2. DOMAIN spans = 1..Len(spans)
    BY LenProperties, Zenon
  <2> QED BY <2>1, <2>2
<1>2. Len(spans) \in Using(c) <=> Holds(spans[Len(spans)], c)
  BY <1>1, Zenon DEF Using
<1>3. IsFiniteSet(Using(c))
  BY UsingIsFinite, Zenon
<1> QED BY <1>1, <1>2, <1>3, Zenon

\* A lifespan that begins counts if it holds the checkpointer.
LEMMA UseBegins ==
  ASSUME spans \in Seq(Span), NEW s \in Span, spans' = Append(spans, s), NEW c
  PROVE  Cardinality(Using(c)') = Cardinality(Using(c)) + One(Holds(s, c))
<1>1. /\ DOMAIN spans = 1..Len(spans) /\ DOMAIN spans' = 1..(Len(spans) + 1)
      /\ Len(spans) \in Nat
      /\ \A i \in 1..Len(spans) : spans'[i] = spans[i]
      /\ spans'[Len(spans) + 1] = s
  OBVIOUS
<1>2. Using(c)' = IF Holds(s, c) THEN Using(c) \cup {Len(spans) + 1} ELSE Using(c)
  BY <1>1 DEF Using
<1>3. IsFiniteSet(Using(c)) /\ Len(spans) + 1 \notin Using(c)
  BY <1>1, UsingIsFinite
<1>4. Cardinality(Using(c)) \in Nat
  BY <1>3, FS_CardinalityType
<1>5. Cardinality(Using(c) \cup {Len(spans) + 1}) = Cardinality(Using(c)) + 1
  BY <1>3, FS_AddElement
<1> QED BY <1>2, <1>4, <1>5 DEF One

\* The innermost lifespan no longer counts once it has ended.
LEMMA UseEnds ==
  ASSUME spans \in Seq(Span), spans # << >>, spans' = Front(spans), NEW c
  PROVE  Cardinality(Using(c)') = Cardinality(Using(c)) - One(Holds(Top, c))
<1>1. /\ DOMAIN spans = 1..Len(spans) /\ DOMAIN spans' = 1..(Len(spans) - 1)
      /\ Len(spans) \in Nat \ {0}
      /\ \A i \in 1..(Len(spans) - 1) : spans'[i] = spans[i]
      /\ Top = spans[Len(spans)]
  BY FrontOfSpans, LenProperties
<1>2. Using(c)' = Using(c) \ {Len(spans)}
  BY <1>1 DEF Using
<1>3. IsFiniteSet(Using(c)) /\ (Len(spans) \in Using(c) <=> Holds(Top, c))
  BY TopCounts, Zenon
<1>4. Cardinality(Using(c)) \in Nat
  BY <1>3, FS_CardinalityType
<1>5. CASE Holds(Top, c)
  <2>1. Cardinality(Using(c) \ {Len(spans)}) = Cardinality(Using(c)) - 1
    BY <1>3, <1>5, FS_RemoveElement
  <2> QED BY <1>2, <1>5, <2>1 DEF One
<1>6. CASE ~ Holds(Top, c)
  <2>1. Using(c)' = Using(c)
    BY <1>2, <1>3, <1>6
  <2> QED BY <1>4, <1>6, <2>1 DEF One
<1> QED BY <1>5, <1>6

\* A change of stage may make the innermost lifespan count.
LEMMA UseGoesOn ==
  ASSUME spans \in Seq(Span), spans # << >>, NEW st \in {"entering", "running", "leaving"},
         spans' = WithTop(st), NEW c,
         Holds(Top, c) => Holds([Top EXCEPT !.stage = st], c)
  PROVE  Cardinality(Using(c)') = Cardinality(Using(c)) +
           One(Holds([Top EXCEPT !.stage = st], c) /\ ~ Holds(Top, c))
<1> DEFINE top == [Top EXCEPT !.stage = st]
<1>1. /\ DOMAIN spans = 1..Len(spans) /\ DOMAIN spans' = 1..Len(spans)
      /\ Len(spans) \in Nat \ {0}
      /\ \A i \in 1..(Len(spans) - 1) : spans'[i] = spans[i]
      /\ Top = spans[Len(spans)] /\ spans'[Len(spans)] = top
  BY FrontOfSpans, WithTopOfSpans, LenProperties
<1>0. Holds(Top, c) => Holds(top, c)
  OBVIOUS
<1> HIDE DEF top
<1>2. Using(c)' = IF Holds(top, c) THEN Using(c) \cup {Len(spans)} ELSE Using(c)
  BY <1>0, <1>1 DEF Using
<1>3. IsFiniteSet(Using(c)) /\ (Len(spans) \in Using(c) <=> Holds(Top, c))
  BY TopCounts, Zenon
<1>4. Cardinality(Using(c)) \in Nat
  BY <1>3, FS_CardinalityType
<1>5. CASE Holds(top, c) /\ ~ Holds(Top, c)
  <2>1. Cardinality(Using(c) \cup {Len(spans)}) = Cardinality(Using(c)) + 1
    BY <1>3, <1>5, FS_AddElement
  <2> QED BY <1>2, <1>5, <2>1 DEF One, top
<1>6. CASE ~ (Holds(top, c) /\ ~ Holds(Top, c))
  <2>1. Using(c)' = Using(c)
    BY <1>0, <1>2, <1>3, <1>6
  <2> QED BY <1>4, <1>6, <2>1 DEF One, top
<1> QED BY <1>5, <1>6

\* A lifespan begins: it opens what has aclose, and awaits a context.
LEMMA StartsKeepsLifeInv ==
  ASSUME LifeInv, NEW c \in Configs, Starts(c)
  PROVE  LifeInv'
<1> DEFINE st == IF Savers[c] \in {"context", "alien"} THEN "entering" ELSE "running"
           s == [config |-> c, previous |-> exposed, stage |-> st]
<1>1. st \in {"entering", "running", "leaving"}
  OBVIOUS
<1>2. spans' = Append(spans, s) /\ exposed' = c /\ UNCHANGED given /\ Running
  BY DEF Starts
<1>3. Nested'
  <2> HIDE DEF st
  <2> QED BY <1>1, <1>2, NestedBegins DEF LifeInv
<1>4. s \in Span /\ s.config = c /\ s.stage = st
  <2> HIDE DEF st
  <2> QED BY <1>1 DEF LifeInv, Nested, Span, Exposable
<1>5. /\ Len(spans) \in Nat /\ Len(spans') = Len(spans) + 1
      /\ \A i \in 1..Len(spans) : spans'[i] = spans[i]
      /\ spans'[Len(spans) + 1] = s
  <2> HIDE DEF s
  <2> QED BY <1>2, <1>4 DEF LifeInv, Nested
<1>6. Staged'
  <2> SUFFICES ASSUME NEW i \in 1..Len(spans')
               PROVE /\ spans'[i].stage = "entering" =>
                          Savers[spans'[i].config] \in {"context", "alien"}
                     /\ spans'[i].stage = "leaving" =>
                          Savers[spans'[i].config] \notin {"none", "plain"}
    BY DEF Staged
  <2>1. CASE i \in 1..Len(spans)
    BY <1>5, <2>1 DEF LifeInv, Staged
  <2>2. CASE i = Len(spans) + 1
    <3> HIDE DEF s
    <3> QED BY <1>4, <1>5, <2>2
  <2> QED BY <1>5, <2>1, <2>2
<1>7. open' \in [Configs -> Nat] /\ OpenWhileUsed'
  <2>1. \A d \in Configs : Holds(s, d) <=> d = c /\ Savers[c] = "closing"
    <3>1. Savers[c] \in SaverKinds
      BY SaversAssumption
    <3>2. \A d \in Configs : Holds(s, d) <=>
             c = d /\ st # "entering" /\ Savers[d] \notin {"none", "plain"}
      <4> HIDE DEF s, st
      <4> QED BY <1>4 DEF Holds
    <3> QED BY <3>1, <3>2 DEF SaverKinds
  <2>2. \A d \in Configs : Cardinality(Using(d)') = open[d] + One(Holds(s, d))
    <3> HIDE DEF s
    <3> QED BY <1>2, <1>4, UseBegins DEF LifeInv, Nested, OpenWhileUsed
  <2>3. open' \in [Configs -> Nat] /\ \A d \in Configs : open'[d] = open[d] + One(Holds(s, d))
    <3> HIDE DEF s
    <3> QED BY <2>1 DEF Starts, LifeInv, One
  <2> QED BY <2>2, <2>3 DEF OpenWhileUsed
<1> QED BY <1>3, <1>6, <1>7 DEF LifeInv

\* The innermost lifespan ends; what it held is closed with it.
LEMMA EndsKeepsLifeInv ==
  ASSUME LifeInv, spans # << >>, Restore, UNCHANGED given,
         open' \in [Configs -> Nat],
         \A c \in Configs : open'[c] = open[c] - One(Holds(Top, c))
  PROVE  LifeInv'
<1>1. Nested'
  BY NestedEnds DEF LifeInv
<1>2. Staged'
  <2>1. /\ Len(spans) \in Nat \ {0} /\ Len(spans') = Len(spans) - 1
        /\ \A i \in 1..(Len(spans) - 1) : spans'[i] = spans[i]
    BY FrontOfSpans DEF Restore, LifeInv, Nested
  <2>2. \A i \in 1..Len(spans') : i \in 1..Len(spans) /\ spans'[i] = spans[i]
    BY <2>1
  <2> QED BY <2>2 DEF LifeInv, Staged
<1>3. OpenWhileUsed'
  BY UseEnds DEF Restore, LifeInv, Nested, OpenWhileUsed
<1> QED BY <1>1, <1>2, <1>3 DEF LifeInv

\* The innermost lifespan goes from one stage to another; it is counted if it
\* now holds what it did not hold.
LEMMA GoesOnKeepsLifeInv ==
  ASSUME LifeInv, spans # << >>, NEW st \in {"running", "leaving"},
         spans' = WithTop(st), UNCHANGED <<given, exposed>>,
         TopKind \notin {"none", "plain"},
         open' \in [Configs -> Nat],
         \A c \in Configs : open'[c] =
            open[c] + One(c = Top.config /\ Top.stage = "entering")
  PROVE  LifeInv'
<1>1. Nested'
  BY NestedGoesOn DEF LifeInv
<1>2. /\ Len(spans) \in Nat \ {0} /\ Len(spans') = Len(spans)
      /\ \A i \in 1..(Len(spans) - 1) : spans'[i] = spans[i]
      /\ spans'[Len(spans)] = [Top EXCEPT !.stage = st] /\ Top \in Span
  BY FrontOfSpans, WithTopOfSpans DEF LifeInv, Nested
<1> DEFINE top == [Top EXCEPT !.stage = st]
<1>3. top.config = Top.config /\ top.stage = st
  BY <1>2 DEF Span
<1>4. Staged'
  <2> HIDE DEF top
  <2>1. spans'[Len(spans)] = top
    BY <1>2 DEF top
  <2> SUFFICES ASSUME NEW i \in 1..Len(spans')
               PROVE /\ spans'[i].stage = "entering" =>
                          Savers[spans'[i].config] \in {"context", "alien"}
                     /\ spans'[i].stage = "leaving" =>
                          Savers[spans'[i].config] \notin {"none", "plain"}
    BY DEF Staged
  <2>2. CASE i \in 1..(Len(spans) - 1)
    <3>1. i \in 1..Len(spans) /\ spans'[i] = spans[i]
      BY <1>2, <2>2
    <3> QED BY <3>1 DEF LifeInv, Staged
  <2>3. CASE i = Len(spans)
    BY <1>3, <2>1, <2>3 DEF TopKind
  <2> QED BY <1>2, <2>2, <2>3
<1>5. OpenWhileUsed'
  <2> SUFFICES ASSUME NEW c \in Configs PROVE open'[c] = Cardinality(Using(c)')
    BY DEF OpenWhileUsed
  <2> HIDE DEF top
  <2>1. Holds(Top, c) <=> c = Top.config /\ Top.stage # "entering"
    BY DEF Holds, TopKind
  <2>2. Holds(top, c) <=> c = Top.config
    BY <1>3 DEF Holds, TopKind
  <2>3. Cardinality(Using(c)') = Cardinality(Using(c)) + One(Holds(top, c) /\ ~ Holds(Top, c))
    <3>1. Holds(Top, c) => Holds([Top EXCEPT !.stage = st], c)
      BY <2>1, <2>2 DEF top
    <3>2. spans \in Seq(Span) /\ st \in {"entering", "running", "leaving"}
      BY DEF LifeInv, Nested
    <3> QED BY <3>1, <3>2, UseGoesOn DEF top
  <2>4. open[c] = Cardinality(Using(c))
    BY DEF LifeInv, OpenWhileUsed
  <2> QED BY <2>1, <2>2, <2>3, <2>4 DEF One
<1> QED BY <1>1, <1>4, <1>5 DEF LifeInv

\* Every step of a lifespan keeps the invariant; requests touch none of it.
LEMMA LifeInvStep == LifeInv /\ [AppNext]_appVars => LifeInv'
<1> SUFFICES ASSUME LifeInv, [AppNext]_appVars PROVE LifeInv'
  OBVIOUS
<1> USE DEF InTop
<1>0. CASE UNCHANGED lifeVars
  BY <1>0 DEF lifeVars, LifeInv, Nested, Staged, OpenWhileUsed, Using, ExposesInnermost, Top
<1>1. ASSUME NEW c \in Configs, Starts(c) PROVE LifeInv'
  BY <1>1, StartsKeepsLifeInv
<1>2. ASSUME spans # << >>
      PROVE  /\ Top \in Span /\ Top.config \in Configs
             /\ TopKind = Savers[Top.config] /\ TopKind \in SaverKinds
             /\ Top.stage = "entering" => TopKind \in {"context", "alien"}
             /\ Top.stage = "leaving" => TopKind \notin {"none", "plain"}
  <2>1. Top = spans[Len(spans)] /\ Len(spans) \in 1..Len(spans) /\ Top \in Span
    BY <1>2, FrontOfSpans DEF LifeInv, Nested
  <2> QED BY <2>1, SaversAssumption DEF LifeInv, Staged, TopKind, Span
<1>3. CASE Enters
  <2>1. spans # << >> /\ Top.stage = "entering" /\ TopKind \in {"context", "alien"}
    BY <1>2, <1>3 DEF Enters
  <2>2. open' \in [Configs -> Nat]
    BY <1>2, <1>3 DEF Enters, LifeInv
  <2>3. \A c \in Configs : open'[c] = open[c] + One(c = Top.config /\ Top.stage = "entering")
    BY <1>3, <2>1 DEF Enters, LifeInv, One
  <2> DEFINE st == IF TopKind = "context" THEN "running" ELSE "leaving"
  <2>4. st \in {"running", "leaving"} /\ spans' = WithTop(st)
    BY <1>3 DEF Enters
  <2>5. UNCHANGED <<given, exposed>>
    BY <1>3 DEF Enters
  <2> HIDE DEF st
  <2> QED BY <2>1, <2>2, <2>3, <2>4, <2>5, GoesOnKeepsLifeInv
<1>4. CASE EnterFails
  <2>1. spans # << >> /\ Top.stage = "entering" /\ Restore /\ UNCHANGED <<given, open>>
    BY <1>4 DEF EnterFails
  <2>2. \A c \in Configs : ~ Holds(Top, c)
    BY <2>1 DEF Holds
  <2>3. open' \in [Configs -> Nat] /\ \A c \in Configs : open'[c] = open[c] - One(Holds(Top, c))
    BY <2>1, <2>2 DEF One, LifeInv
  <2> QED BY <2>1, <2>3, EndsKeepsLifeInv
<1>5. CASE Leaves
  <2>1. spans # << >> /\ Top.stage = "running" /\ UNCHANGED <<given, open>>
    BY <1>5 DEF Leaves
  <2>2. CASE TopKind \in {"none", "plain"}
    <3>1. Restore
      BY <1>5, <2>2 DEF Leaves
    <3>2. \A c \in Configs : ~ Holds(Top, c)
      BY <2>2 DEF Holds, TopKind
    <3>3. open' \in [Configs -> Nat] /\ \A c \in Configs : open'[c] = open[c] - One(Holds(Top, c))
      BY <2>1, <3>2 DEF One, LifeInv
    <3> QED BY <2>1, <3>1, <3>3, EndsKeepsLifeInv
  <2>3. CASE TopKind \notin {"none", "plain"}
    <3>1. spans' = WithTop("leaving") /\ UNCHANGED <<given, exposed>>
      BY <1>5, <2>3 DEF Leaves
    <3>2. open' \in [Configs -> Nat] /\ \A c \in Configs : open'[c] =
            open[c] + One(c = Top.config /\ Top.stage = "entering")
      BY <2>1 DEF One, LifeInv
    <3> QED BY <2>1, <2>3, <3>1, <3>2, GoesOnKeepsLifeInv
  <2> QED BY <2>2, <2>3
<1>6. CASE Closes
  <2>1. spans # << >> /\ Top.stage = "leaving" /\ Restore /\ UNCHANGED given
    BY <1>6 DEF Closes
  <2>2. Top.config \in Configs /\ TopKind \notin {"none", "plain"}
    BY <1>2, <2>1
  <2>3. \A c \in Configs : Holds(Top, c) <=> c = Top.config
    BY <2>1, <2>2 DEF Holds, TopKind
  <2>4. open[Top.config] \in Nat \ {0}
    <3>1. Len(spans) \in Using(Top.config)
      <4>1. Top = spans[Len(spans)] /\ Len(spans) \in DOMAIN spans
        BY <2>1, FrontOfSpans, LenProperties DEF LifeInv, Nested
      <4> QED BY <2>2, <2>3, <4>1 DEF Using
    <3>2. IsFiniteSet(Using(Top.config))
      BY UsingIsFinite DEF LifeInv, Nested
    <3>3. Cardinality(Using(Top.config)) \in Nat \ {0}
      BY <3>1, <3>2, FS_CardinalityType, FS_EmptySet
    <3> QED BY <2>2, <3>3 DEF LifeInv, OpenWhileUsed
  <2>5. open' \in [Configs -> Nat] /\ \A c \in Configs : open'[c] = open[c] - One(Holds(Top, c))
    BY <1>6, <2>2, <2>3, <2>4 DEF Closes, LifeInv, One
  <2> QED BY <2>1, <2>5, EndsKeepsLifeInv
<1> QED BY <1>0, <1>1, <1>3, <1>4, <1>5, <1>6 DEF AppNext, appVars, LifespanStep,
        MiddlewareStep, ApplicationReads, Resolve, Serve, Handle, Answer

\* Lifespans nest, and hold what is open, in every state.
LEMMA LifeInvariance == AppSpec => []LifeInv
<1>1. AppInit => LifeInv
  <2> SUFFICES ASSUME AppInit PROVE LifeInv
    OBVIOUS
  <2>1. spans = << >> /\ Len(spans) = 0 /\ DOMAIN spans = {}
    BY DEF AppInit, LifeInit
  <2>2. \A c \in Configs : Using(c) = {} /\ open[c] = 0
    BY <2>1 DEF Using, AppInit, LifeInit
  <2>3. OpenWhileUsed
    BY <2>2, FS_EmptySet DEF OpenWhileUsed
  <2>4. spans \in Seq(Span) /\ open \in [Configs -> Nat]
    BY <2>1 DEF AppInit, LifeInit
  <2> QED BY <2>1, <2>3, <2>4 DEF AppInit, LifeInit, LifeInv, Nested, Staged, ExposesInnermost
<1> QED BY <1>1, LifeInvStep, PTL DEF AppSpec

\* However lifespans nest, begin, fail and end, the application exposes the
\* configuration of the innermost, and in the end what it exposed at first.
THEOREM InnermostIsExposed == AppSpec => []ExposesInnermost
<1>1. LifeInv => ExposesInnermost
  BY DEF LifeInv, Nested
<1> QED BY <1>1, LifeInvariance, PTL

\* A checkpointer is open exactly as many times as lifespans use it: none is
\* closed under a lifespan, none is left open by one that ended or failed.
THEOREM CheckpointersOpenWhileUsed == AppSpec => []OpenWhileUsed
<1>1. LifeInv => OpenWhileUsed
  BY DEF LifeInv
<1> QED BY <1>1, LifeInvariance, PTL

-----------------------------------------------------------------------------
(***************************************************************************)
(* The configuration a handler works with                                  *)
(***************************************************************************)

\* While a request is served no lifespan begins or ends, so that what
\* get_server_config found is what it would find now.
ServeInv ==
  /\ stage # "none" =>
       /\ Running
       /\ bound # NotSet => spans # << >> /\ bound = spans[1].config
  /\ stage \in {"resolved", "handling"} => config = get_server_config /\ config # NotSet

\* Serve and Resolve establish their part; the other steps leave it alone.
LEMMA ServeInvStep == ServeInv /\ [AppNext]_appVars => ServeInv'
<1> SUFFICES ASSUME ServeInv, [AppNext]_appVars PROVE ServeInv'
  OBVIOUS
<1> USE DEF Running, InTop, Top, get_server_config
<1>1. CASE UNCHANGED <<lifeVars, stage, bound, config>>
  BY <1>1 DEF ServeInv, lifeVars
<1>2. CASE LifespanStep
  BY <1>2 DEF LifespanStep, ServeInv
<1>3. ASSUME NEW sc, NEW length, Serve(sc, length) PROVE ServeInv'
  BY <1>3 DEF Serve, ServeInv, lifeVars
<1>4. CASE Resolve
  BY <1>4 DEF Resolve, ServeInv, lifeVars
<1>5. ASSUME NEW route, NEW t, NEW b, Handle(route, t, b) PROVE ServeInv'
  BY <1>5 DEF Handle, ServeInv, lifeVars
<1>6. CASE Answer
  BY <1>6 DEF Answer, ServeInv
<1> QED BY <1>1, <1>2, <1>3, <1>4, <1>5, <1>6 DEF AppNext, appVars, MiddlewareStep,
        ApplicationReads, lifeVars

\* A handler's configuration stays the one in force until it has answered.
LEMMA ServeInvariance == AppSpec => []ServeInv
<1>1. AppInit => ServeInv
  BY DEF AppInit, ServeInv
<1> QED BY <1>1, ServeInvStep, PTL DEF AppSpec

\* In an application with a lifespan a handler works with an open checkpointer,
\* whether its router is bound to a configuration or finds the exposed one.
THEOREM CheckpointersOpenForHandlers == AppSpec => []HandlersFindOpenCheckpointer
<1>1. ASSUME LifeInv, ServeInv PROVE HandlersFindOpenCheckpointer
  <2> SUFFICES ASSUME stage = "handling", spans # << >>, Savers[config] \notin {"none", "plain"}
               PROVE  open[config] > 0
    BY DEF HandlersFindOpenCheckpointer
  <2>1. /\ Len(spans) \in Nat \ {0} /\ Top = spans[Len(spans)]
        /\ DOMAIN spans = 1..Len(spans) /\ \A i \in 1..Len(spans) : spans[i] \in Span
    BY <1>1, FrontOfSpans, LenProperties DEF LifeInv, Nested
  <2>2. \A i \in 1..Len(spans) : spans[i].stage = "running"
    BY <1>1, <2>1 DEF LifeInv, Nested, ServeInv, Running, InTop
  <2>3. \E i \in 1..Len(spans) : config = spans[i].config
    <3>1. CASE bound # NotSet
      <4>1. config = spans[1].config /\ 1 \in 1..Len(spans)
        BY <1>1, <2>1, <3>1 DEF ServeInv, get_server_config
      <4> QED BY <4>1
    <3>2. CASE bound = NotSet
      <4>1. config = spans[Len(spans)].config /\ Len(spans) \in 1..Len(spans)
        BY <1>1, <2>1, <3>2 DEF ServeInv, get_server_config, LifeInv, Nested, ExposesInnermost
      <4> QED BY <4>1
    <3> QED BY <3>1, <3>2
  <2> PICK i \in 1..Len(spans) : config = spans[i].config
    BY <2>3
  <2>4. i \in Using(config) /\ config \in Configs
    BY <2>1, <2>2 DEF Using, Holds, Span
  <2>5. IsFiniteSet(Using(config))
    BY <1>1, UsingIsFinite DEF LifeInv, Nested
  <2>6. Cardinality(Using(config)) \in Nat \ {0}
    BY <2>4, <2>5, FS_CardinalityType, FS_EmptySet
  <2> QED BY <1>1, <2>4, <2>6 DEF LifeInv, OpenWhileUsed
<1> QED BY <1>1, LifeInvariance, ServeInvariance, PTL

-----------------------------------------------------------------------------
(***************************************************************************)
(* The replay of a body                                                    *)
(***************************************************************************)

\* What has been replayed is the part before message_index; once all of it
\* has been, the application receives what the server receives.
Replaying ==
  \/ received = messages /\ Len(got) = index /\ \A i \in 1..index : got[i] = messages[i]
  \/ index = Len(messages) /\ got = received

BodyInv ==
  /\ messages \in Seq(Message) /\ received \in Seq(Message) /\ got \in Seq(Message)
  /\ index \in 0..Len(messages)
  /\ Replaying
  /\ body # "app" => index = 0 /\ got = << >> /\ received = messages

\* What the server's receive returns is a message.
LEMMA NextMessagesAreMessages ==
  ASSUME NEW ms PROVE NextMessages(ms) \subseteq Message
BY DEF NextMessages, Message

\* The middleware keeps what it reads; the application gets it one by one.
LEMMA BodyInvStep == BodyInv /\ [AppNext]_appVars => BodyInv'
<1> SUFFICES ASSUME BodyInv, [AppNext]_appVars PROVE BodyInv'
  OBVIOUS
<1>1. CASE UNCHANGED bodyVars
  BY <1>1 DEF bodyVars, BodyInv, Replaying
<1>2. ASSUME NEW sc, NEW length, Call(sc, length) PROVE BodyInv'
  <2>1. << >> \in Seq(Message) /\ Len(<< >>) = 0
    OBVIOUS
  <2>2. /\ messages' = << >> /\ received' = << >> /\ got' = << >> /\ index' = 0
        /\ body' = "start"
    BY <1>2 DEF Call
  <2> QED BY <2>1, <2>2 DEF BodyInv, Replaying
<1>3. CASE Checks
  BY <1>3 DEF Checks, BodyInv, Replaying
<1>4. ASSUME NEW m \in Message, Reads(m) PROVE BodyInv'
  <2>1. index = 0 /\ got = << >> /\ received = messages
    BY <1>4 DEF Reads, BodyInv
  <2>2. /\ received' = Append(messages, m) /\ messages' = Append(messages, m)
        /\ index' = 0 /\ got' = << >>
    BY <1>4, <2>1 DEF Reads
  <2>3. Append(messages, m) \in Seq(Message) /\ Len(Append(messages, m)) \in Nat
    BY DEF BodyInv
  <2> QED BY <2>2, <2>3 DEF BodyInv, Replaying
<1>5. CASE AppReceives
  <2>1. body = "app" /\ body' = "app" /\ messages' = messages /\ Len(messages) \in Nat
    BY <1>5 DEF AppReceives, BodyInv
  <2>2. CASE index < Len(messages)
    <3>1. received = messages /\ Len(got) = index /\ \A i \in 1..index : got[i] = messages[i]
      BY <2>2 DEF BodyInv, Replaying
    <3>2. /\ got' = Append(got, messages[index + 1]) /\ index' = index + 1
          /\ received' = received
      BY <1>5, <2>2 DEF AppReceives
    <3>3. messages[index + 1] \in Message /\ index + 1 \in 1..Len(messages)
      BY <2>1, <2>2 DEF BodyInv
    <3>4. /\ got' \in Seq(Message) /\ Len(got') = index + 1
          /\ \A i \in 1..index : got'[i] = got[i]
          /\ got'[index + 1] = messages[index + 1]
      BY <3>1, <3>2, <3>3 DEF BodyInv
    <3>5. \A i \in 1..(index + 1) : got'[i] = messages[i]
      BY <3>1, <3>4 DEF BodyInv
    <3> QED BY <2>1, <3>1, <3>2, <3>3, <3>4, <3>5 DEF BodyInv, Replaying
  <2>3. CASE ~ (index < Len(messages))
    <3>1. index = Len(messages) /\ index' = index
      BY <1>5, <2>1, <2>3 DEF AppReceives, BodyInv
    <3>2. got = received
      <4>1. CASE received = messages /\ Len(got) = index /\ \A i \in 1..index : got[i] = messages[i]
        <5>1. got \in Seq(Message) /\ messages \in Seq(Message) /\ Len(got) = Len(messages)
              /\ \A i \in 1..Len(got) : got[i] = messages[i]
          BY <3>1, <4>1 DEF BodyInv
        <5> QED BY <4>1, <5>1, SeqEqual
      <4> QED BY <4>1 DEF BodyInv, Replaying
    <3>3. PICK m \in NextMessages(received) : received' = Append(received, m) /\ got' = Append(got, m)
      BY <1>5, <2>3 DEF AppReceives
    <3>4. m \in Message
      BY NextMessagesAreMessages
    <3>5. got' = received' /\ got' \in Seq(Message)
      BY <3>2, <3>3, <3>4 DEF BodyInv
    <3> QED BY <2>1, <3>1, <3>5 DEF BodyInv, Replaying
  <2> QED BY <2>2, <2>3
<1>6. CASE LifespanStep \/ Resolve
  BY <1>1, <1>6 DEF LifespanStep, Resolve
<1>7. CASE MiddlewareStep
  BY <1>3, <1>4, <1>7 DEF MiddlewareStep
<1>8. CASE ApplicationReads
  BY <1>5, <1>8 DEF ApplicationReads
<1>9. CASE Answer
  BY <1>2, <1>9 DEF Answer, BodyLeaves
<1>10. ASSUME NEW sc, NEW length, Serve(sc, length) PROVE BodyInv'
  BY <1>2, <1>10 DEF Serve, BodyArrives
<1>11. ASSUME NEW route, NEW t, NEW b, Handle(route, t, b) PROVE BodyInv'
  BY <1>1, <1>11 DEF Handle
<1>12. CASE UNCHANGED appVars
  BY <1>1, <1>12 DEF appVars
<1> QED BY <1>6, <1>7, <1>8, <1>9, <1>10, <1>11, <1>12 DEF AppNext

\* The replay has its place in the body in every state.
LEMMA BodyInvariance == AppSpec => []BodyInv
<1>1. AppInit => BodyInv
  <2>1. << >> \in Seq(Message) /\ Len(<< >>) = 0
    OBVIOUS
  <2> QED BY <2>1 DEF AppInit, BodyInit, BodyInv, Replaying
<1> QED BY <1>1, BodyInvStep, PTL DEF AppSpec

\* The application receives what the server received, each message once and in
\* order, however many chunks the middleware read before the application began.
THEOREM BodiesAreReplayedInOrder == AppSpec => []ReplayInOrder
<1>1. ASSUME BodyInv PROVE ReplayInOrder
  <2>1. CASE got = received
    <3>1. IsPrefix(got, received)
      BY <1>1, <2>1 DEF BodyInv, IsPrefix
    <3> QED BY <2>1, <3>1 DEF ReplayInOrder
  <2>2. CASE got # received
    <3>1. /\ received = messages /\ Len(got) = index /\ \A i \in 1..index : got[i] = messages[i]
          /\ messages \in Seq(Message) /\ got \in Seq(Message)
          /\ index \in 0..Len(messages) /\ Len(messages) \in Nat
      BY <1>1, <2>2 DEF BodyInv, Replaying
    <3>2. got = SubSeq(messages, 1, index)
      <4>1. /\ SubSeq(messages, 1, index) \in Seq(Message)
            /\ Len(SubSeq(messages, 1, index)) = index
            /\ \A i \in 1..index : SubSeq(messages, 1, index)[i] = messages[i]
        BY <3>1
      <4> QED BY <3>1, <4>1, SeqEqual
    <3>3. got \o SubSeq(messages, index + 1, Len(messages)) = messages
      <4>1. SubSeq(messages, 1, index) \o SubSeq(messages, index + 1, Len(messages))
              = SubSeq(messages, 1, Len(messages))
        <5>1. 1 \in 1..Len(messages) + 1 /\ index \in 1 - 1..Len(messages)
              /\ Len(messages) \in index..Len(messages)
          BY <3>1
        <5> QED BY <3>1, <5>1, ConcatAdjacentSubSeq
      <4>2. SubSeq(messages, 1, Len(messages)) = messages
        BY <3>1
      <4> QED BY <3>2, <4>1, <4>2
    <3>4. IsPrefix(got, received)
      <4>1. SubSeq(got, 1, Len(got)) = got
        BY <3>1
      <4> QED BY <3>1, <3>2, <4>1 DEF IsPrefix
    <3> QED BY <3>1, <3>3, <3>4 DEF ReplayInOrder
  <2> QED BY <2>1, <2>2
<1> QED BY <1>1, BodyInvariance, PTL


-----------------------------------------------------------------------------
(***************************************************************************)
(* The limit on a body                                                     *)
(***************************************************************************)

\* The bytes of a body, as the sum over its places.
LEMMA BytesAreSum ==
  ASSUME NEW ms \in Seq(Message)
  PROVE  /\ Bytes(ms) = SumOver([i \in 1..Len(ms) |-> ms[i].size], 1..Len(ms))
         /\ IsFiniteSet(1..Len(ms)) /\ Len(ms) \in Nat
         /\ \A i \in 1..Len(ms) : ms[i].size \in Nat
         /\ Bytes(ms) \in Nat
<1> DEFINE f == [i \in 1..Len(ms) |-> ms[i].size]
<1>1. DOMAIN ms = 1..Len(ms) /\ Len(ms) \in Nat
  OBVIOUS
<1>2. IsFiniteSet(1..Len(ms))
  BY <1>1, FS_Interval
<1>3. \A m \in Message : m.size \in Nat
  BY ClientAssumption DEF Message, Chunk, Disconnect
<1>4. \A i \in 1..Len(ms) : ms[i].size \in Nat
  BY <1>3
<1>5. Bytes(ms) = SumOver(f, 1..Len(ms))
  BY <1>1 DEF Bytes, Total
<1>6. \A i \in 1..Len(ms) : f[i] \in Nat
  BY <1>4
<1> HIDE DEF f
<1>7. SumOver(f, 1..Len(ms)) \in Nat
  BY <1>2, <1>6, SumNat
<1> QED BY <1>1, <1>2, <1>4, <1>5, <1>7 DEF f

\* Nothing was received at first.
LEMMA BytesOfNothing == Bytes(<< >>) = 0
<1>1. << >> \in Seq(Message) /\ Len(<< >>) = 0
  OBVIOUS
<1>2. Bytes(<< >>) = SumOver([i \in 1..0 |-> << >>[i].size], 1..0)
  BY <1>1, BytesAreSum
<1>3. 1..0 = {}
  OBVIOUS
<1> QED BY <1>2, <1>3, SumEmpty

\* A message adds its size.
LEMMA BytesAppend ==
  ASSUME NEW ms \in Seq(Message), NEW m \in Message
  PROVE  Bytes(Append(ms, m)) = Bytes(ms) + m.size
<1> DEFINE n == Len(ms)
           f == [i \in 1..n |-> ms[i].size]
           g == [i \in 1..(n + 1) |-> Append(ms, m)[i].size]
<1>1. Append(ms, m) \in Seq(Message) /\ Len(Append(ms, m)) = n + 1 /\ n \in Nat
  OBVIOUS
<1>2. /\ Bytes(ms) = SumOver(f, 1..n) /\ IsFiniteSet(1..n) /\ Bytes(ms) \in Nat
      /\ \A i \in 1..n : ms[i].size \in Nat
  BY BytesAreSum
<1>3. /\ Bytes(Append(ms, m)) = SumOver(g, 1..(n + 1))
      /\ \A i \in 1..(n + 1) : Append(ms, m)[i].size \in Nat
  <2>1. /\ Bytes(Append(ms, m)) = SumOver([i \in 1..Len(Append(ms, m)) |-> Append(ms, m)[i].size],
                                          1..Len(Append(ms, m)))
        /\ \A i \in 1..Len(Append(ms, m)) : Append(ms, m)[i].size \in Nat
    BY <1>1, BytesAreSum
  <2> QED BY <1>1, <2>1
<1>4. /\ \A i \in 1..n : f[i] = ms[i].size /\ g[i] = f[i] /\ f[i] \in Nat
      /\ g[n + 1] = m.size /\ g[n + 1] \in Nat
  BY <1>1, <1>2, <1>3
<1>5. 1..(n + 1) = (1..n) \cup {n + 1} /\ n + 1 \notin 1..n
  BY <1>1
<1> HIDE DEF f, g, n
<1>6. SumOver(g, (1..n) \cup {n + 1}) = g[n + 1] + SumOver(g, 1..n)
  <2>1. \A i \in (1..n) \cup {n + 1} : g[i] \in Int
    BY <1>4
  <2> QED BY <1>2, <1>5, <2>1, SumAdd
<1>7. SumOver(g, 1..n) = SumOver(f, 1..n)
  <2>1. (\A i \in 1..n : g[i] \in Int) /\ \A i \in 1..n : g[i] = f[i]
    BY <1>4
  <2>2. IsFiniteSet(1..n)
    BY <1>2
  <2> QED BY <2>1, <2>2, SumSame, Zenon
<1>8. Bytes(Append(ms, m)) = m.size + Bytes(ms)
  BY <1>2, <1>3, <1>4, <1>5, <1>6, <1>7
<1> QED BY <1>2, <1>4, <1>8

\* The beginning of a body is not larger than the body.
LEMMA BytesOfBeginning ==
  ASSUME NEW s \in Seq(Message), NEW ms \in Seq(Message), Len(s) <= Len(ms),
         \A i \in 1..Len(s) : s[i] = ms[i]
  PROVE  Bytes(s) <= Bytes(ms)
<1> DEFINE f == [i \in 1..Len(ms) |-> ms[i].size]
           e == [i \in 1..Len(s) |-> s[i].size]
<1>1. /\ Bytes(ms) = SumOver(f, 1..Len(ms)) /\ IsFiniteSet(1..Len(ms)) /\ Len(ms) \in Nat
      /\ \A i \in 1..Len(ms) : ms[i].size \in Nat
  BY BytesAreSum
<1>2. Bytes(s) = SumOver(e, 1..Len(s)) /\ IsFiniteSet(1..Len(s)) /\ Len(s) \in Nat
  BY BytesAreSum
<1>3. 1..Len(s) \in SUBSET (1..Len(ms))
  BY <1>1, <1>2
<1>4. /\ \A i \in 1..Len(ms) : f[i] \in Nat
      /\ \A i \in 1..Len(s) : e[i] = f[i] /\ f[i] \in Int
  BY <1>1, <1>3
<1> HIDE DEF f, e
<1>5. SumOver(f, 1..Len(s)) <= SumOver(f, 1..Len(ms))
  BY <1>1, <1>3, <1>4, SumGrows
<1>6. SumOver(f, 1..Len(s)) = SumOver(e, 1..Len(s))
  BY <1>2, <1>4, SumSame
<1> QED BY <1>1, <1>2, <1>5, <1>6

\* The middleware counts what it keeps.  The application is called with a whole
\* body within the limit; after it, nothing but disconnections is received.
MeterInv ==
  /\ declared \in Lengths \cup {NoLength, Garbage}
  /\ consumed = Bytes(messages)
  /\ body = "start" => messages = << >>
  /\ body = "app" /\ scope = "http" => Ended(received) /\ Bytes(received) <= MaxBodyBytes
  /\ body = "rejected" =>
       MaxBodyBytes < IF received = << >> THEN declared ELSE Bytes(received)

\* Every step counts right.
LEMMA MeterInvStep == BodyInv /\ MeterInv /\ [AppNext]_appVars => MeterInv'
<1> SUFFICES ASSUME BodyInv, MeterInv, [AppNext]_appVars PROVE MeterInv'
  OBVIOUS
<1>0. /\ messages \in Seq(Message) /\ received \in Seq(Message) /\ MaxBodyBytes \in Nat
      /\ body # "app" => received = messages
  BY BodyLimitAssumption DEF BodyInv
<1>1. CASE UNCHANGED bodyVars
  BY <1>1 DEF bodyVars, MeterInv, Ended
<1>2. ASSUME NEW sc, NEW length \in Lengths \cup {NoLength, Garbage}, Call(sc, length)
      PROVE  MeterInv'
  <2>1. messages' = << >> /\ consumed' = 0 /\ body' = "start" /\ declared' = length
    BY <1>2 DEF Call
  <2> QED BY <2>1, BytesOfNothing DEF MeterInv
<1>3. CASE Checks
  <2>1. /\ body = "start" /\ received = << >> /\ messages = << >>
        /\ UNCHANGED <<declared, consumed, messages, received, scope>>
        /\ body' = IF scope # "http" THEN "app"
                   ELSE IF DeclaredLength > MaxBodyBytes THEN "rejected" ELSE "reading"
    BY <1>0, <1>3 DEF Checks, MeterInv
  <2>2. body' = "rejected" => MaxBodyBytes < declared
    BY <1>0, <2>1 DEF DeclaredLength
  <2> QED BY <2>1, <2>2 DEF MeterInv
<1>4. ASSUME NEW m \in Message, Reads(m) PROVE MeterInv'
  <2>1. /\ received = messages
        /\ received' = Append(received, m) /\ messages' = Append(messages, m)
        /\ consumed' = consumed + m.size
        /\ body' = IF consumed' > MaxBodyBytes THEN "rejected"
                   ELSE IF m.more THEN "reading" ELSE "app"
        /\ declared' = declared
    BY <1>0, <1>4 DEF Reads
  <2>2. Bytes(received') = consumed' /\ Bytes(messages') = consumed'
    BY <1>0, <2>1, BytesAppend DEF MeterInv
  <2>3. consumed' \in Nat
    <3>1. Append(messages, m) \in Seq(Message)
      BY <1>0
    <3> QED BY <2>1, <2>2, <3>1, BytesAreSum
  <2>4. received' # << >> /\ Last(received') = m
    BY <1>0, <2>1 DEF Last
  <2>5. body' = "app" => Ended(received)' /\ Bytes(received') <= MaxBodyBytes
    BY <1>0, <2>1, <2>2, <2>3, <2>4 DEF Ended
  <2>6. body' = "rejected" => MaxBodyBytes < Bytes(received')
    BY <1>0, <2>1, <2>2, <2>3
  <2> QED BY <2>1, <2>2, <2>4, <2>5, <2>6 DEF MeterInv
<1>5. CASE AppReceives
  <2>1. /\ body = "app" /\ UNCHANGED <<scope, declared, body, messages, consumed>>
    BY <1>5 DEF AppReceives
  <2>2. CASE received' = received
    BY <2>1, <2>2 DEF MeterInv, Ended
  <2>3. CASE received' # received
    <3>1. PICK m \in NextMessages(received) : received' = Append(received, m)
      BY <1>5, <2>3 DEF AppReceives
    <3>2. scope = "http" => Ended(received)' /\ Bytes(received') <= MaxBodyBytes
      <4> SUFFICES ASSUME scope = "http"
                   PROVE  Ended(received)' /\ Bytes(received') <= MaxBodyBytes
        OBVIOUS
      <4>1. Ended(received) /\ Bytes(received) <= MaxBodyBytes
        BY <2>1 DEF MeterInv
      <4>2. m = Disconnect /\ m \in Message /\ m.size = 0 /\ ~ m.more
        BY <3>1, <4>1 DEF NextMessages, Message, Disconnect
      <4>3. Bytes(received') = Bytes(received) + m.size /\ Bytes(received) \in Nat
        BY <1>0, <3>1, <4>2, BytesAppend, BytesAreSum
      <4>4. received' # << >> /\ Last(received') = m
        BY <1>0, <3>1, <4>2 DEF Last
      <4> QED BY <4>1, <4>2, <4>3, <4>4 DEF Ended
    <3> QED BY <2>1, <3>2 DEF MeterInv
  <2> QED BY <2>2, <2>3
<1>6. CASE LifespanStep \/ Resolve
  BY <1>1, <1>6 DEF LifespanStep, Resolve
<1>7. CASE MiddlewareStep
  BY <1>3, <1>4, <1>7 DEF MiddlewareStep
<1>8. CASE ApplicationReads
  BY <1>5, <1>8 DEF ApplicationReads
<1>9. CASE Answer
  BY <1>2, <1>9 DEF Answer, BodyLeaves
<1>10. ASSUME NEW sc, NEW length \in Lengths \cup {NoLength, Garbage}, Serve(sc, length)
       PROVE  MeterInv'
  BY <1>2, <1>10 DEF Serve, BodyArrives
<1>11. ASSUME NEW route, NEW t, NEW b, Handle(route, t, b) PROVE MeterInv'
  BY <1>1, <1>11 DEF Handle
<1>12. CASE UNCHANGED appVars
  BY <1>1, <1>12 DEF appVars
<1> QED BY <1>6, <1>7, <1>8, <1>9, <1>10, <1>11, <1>12 DEF AppNext

\* The limit is exact for every way to cut a body into chunks: nothing above it
\* reaches the application, and nothing within it is refused for its chunks.
THEOREM BodyLimitIsExact == AppSpec => []LimitIsExact
<1>1. AppInit => MeterInv
  BY BytesOfNothing DEF AppInit, BodyInit, MeterInv
<1>2. ASSUME BodyInv, MeterInv PROVE LimitIsExact
  <2>1. /\ got \in Seq(Message) /\ received \in Seq(Message) /\ MaxBodyBytes \in Nat
        /\ body # "app" => got = << >>
    BY <1>2, BodyLimitAssumption DEF BodyInv
  <2>2. Len(got) <= Len(received) /\ \A i \in 1..Len(got) : got[i] = received[i]
    <3>1. messages \in Seq(Message) /\ index \in 0..Len(messages) /\ Len(messages) \in Nat
      BY <1>2 DEF BodyInv
    <3> QED BY <1>2, <2>1, <3>1 DEF BodyInv, Replaying
  <2>3. Bytes(got) <= Bytes(received) /\ Bytes(got) \in Nat /\ Bytes(received) \in Nat
    BY <2>1, <2>2, BytesOfBeginning, BytesAreSum
  <2>4. CASE body = "app"
    BY <1>2, <2>1, <2>3, <2>4 DEF MeterInv, LimitIsExact
  <2>5. CASE body # "app"
    <3>1. got = << >>
      BY <2>1, <2>5
    <3>2. Bytes(got) = 0
      BY <3>1, BytesOfNothing
    <3> QED BY <1>2, <2>1, <3>1, <3>2 DEF MeterInv, LimitIsExact
  <2> QED BY <2>4, <2>5
<1>3. BodyInv /\ MeterInv /\ [AppNext]_appVars => MeterInv'
  BY MeterInvStep
<1> QED BY <1>1, <1>2, <1>3, BodyInvariance, PTL DEF AppSpec
=============================================================================
