-------------------------- MODULE VideoTileProofs --------------------------
(***************************************************************************)
(* What VideoTile promises for every number of stream objects and retries. *)
(*                                                                         *)
(* IInv has two parts.  Sound is the variables' types and the fact that no *)
(* stream closes over blocked loaders, so that its reload can load.        *)
(* OneAtATime holds until the user retries by hand: the stream, the pending*)
(* reload and the delayed load exclude each other.  Each operator has a    *)
(* lemma on what it keeps, and each kind of step one per part of the       *)
(* invariant.                                                              *)
(*                                                                         *)
(* That a tile in view stays tended is an action property.  It rests on    *)
(* Sound and on TendInv, which hold after any number of retries.           *)
(***************************************************************************)
EXTENDS VideoTile, FiniteSetTheorems, TLAPS

Streams == [rtc : BOOLEAN, phase : Phases, timed : BOOLEAN, from : Closures]

\* What Closed and Untimed do to each object.
LEMMA ClosedType ==
    ASSUME NEW st \in [Slots -> Streams], NEW S
    PROVE  /\ Closed(st, S) \in [Slots -> Streams]
           /\ \A s \in Slots :
                 /\ Closed(st, S)[s].from = st[s].from
                 /\ Closed(st, S)[s].timed = st[s].timed
                 /\ s \notin S => Closed(st, S)[s] = st[s]
                 /\ s \in S => Closed(st, S)[s].phase =
                       IF st[s].phase \in {"offering", "aborted"} THEN "aborted" ELSE "closed"
<1>1. ASSUME NEW s \in Slots
      PROVE  /\ Closed(st, S)[s] \in Streams
             /\ Closed(st, S)[s].from = st[s].from
             /\ Closed(st, S)[s].timed = st[s].timed
             /\ s \notin S => Closed(st, S)[s] = st[s]
             /\ s \in S => Closed(st, S)[s].phase =
                   IF st[s].phase \in {"offering", "aborted"} THEN "aborted" ELSE "closed"
  <2>1. st[s] \in Streams
    OBVIOUS
  <2>2. CASE s \in S
    BY <2>1, <2>2 DEF Streams, Phases, Closed
  <2>3. CASE s \notin S
    BY <2>1, <2>3 DEF Closed
  <2> QED
    BY <2>2, <2>3
<1>2. Closed(st, S) = [s \in Slots |-> Closed(st, S)[s]]
  BY DEF Closed
<1> QED
  BY <1>1, <1>2

LEMMA UntimedType ==
    ASSUME NEW st \in [Slots -> Streams], NEW ref
    PROVE  /\ Untimed(st, ref) \in [Slots -> Streams]
           /\ \A s \in Slots :
                 /\ Untimed(st, ref)[s].from = st[s].from
                 /\ Untimed(st, ref)[s].phase = st[s].phase
                 /\ Untimed(st, ref)[s].timed => st[s].timed /\ s # ref
                 /\ s # ref => Untimed(st, ref)[s] = st[s]
<1>1. ASSUME NEW s \in Slots
      PROVE  /\ Untimed(st, ref)[s] \in Streams
             /\ Untimed(st, ref)[s].from = st[s].from
             /\ Untimed(st, ref)[s].phase = st[s].phase
             /\ Untimed(st, ref)[s].timed => st[s].timed /\ s # ref
             /\ s # ref => Untimed(st, ref)[s] = st[s]
  <2>1. st[s] \in Streams
    OBVIOUS
  <2>2. CASE s = ref
    BY <2>1, <2>2 DEF Streams, Untimed
  <2>3. CASE s # ref
    BY <2>1, <2>3 DEF Untimed
  <2> QED
    BY <2>2, <2>3
<1>2. Untimed(st, ref) = [s \in Slots |-> Untimed(st, ref)[s]]
  BY DEF Untimed
<1> QED
  BY <1>1, <1>2

\* A new object is open, and a connecting timer is that of hls.js only.
LEMMA NewStreamType ==
    ASSUME NEW call \in LoadCalls
    PROVE  /\ NewStream(call) \in Streams
           /\ NewStream(call).from = call.from
           /\ NewStream(call).phase \in {"offering", "connecting"}
           /\ NewStream(call).timed => NewStream(call).phase = "connecting" /\ ~call.webRtc
<1>1. call.webRtc \in BOOLEAN /\ call.from \in Closures
  BY DEF LoadCalls
<1>2. CASE call.webRtc
  BY <1>1, <1>2 DEF NewStream, Streams, Phases
<1>3. CASE ~call.webRtc
  BY <1>1, <1>3 DEF NewStream, Streams, Phases
<1> QED
  BY <1>2, <1>3
\* No loader that a stream closes over is blocked.
Loadable(st) == \A s \in Slots : ~st[s].from.blocked

StreamsOK ==
    /\ hlsRef \in Slots \cup {NoSlot} /\ pcRef \in Slots \cup {NoSlot}
    /\ connectingRef \in Slots \cup {NoSlot}
    /\ stream \in [Slots -> Streams]
    /\ Loadable(stream)

TimersOK ==
    /\ attempt \in 0..ErrorPhase
    /\ reloadTimer \subseteq Closures
    /\ \A from \in reloadTimer : ~from.blocked

UiOK == isLoaded \in BOOLEAN /\ isLoading \in BOOLEAN /\ hasError \in BOOLEAN

RestOK ==
    /\ expanded \in BOOLEAN /\ mounted \in BOOLEAN /\ isVisible \in BOOLEAN /\ useWebRtc \in BOOLEAN
    /\ memo \in Closures
    /\ seen \in [visible : BOOLEAN, loaded : BOOLEAN, loading : BOOLEAN, webRtc : BOOLEAN]
    /\ memo.blocked = (seen.loaded \/ seen.loading)
    /\ delayTimer \subseteq LoadCalls /\ retryTimer \subseteq LoadCalls
    /\ retries \in 0..MaxRetries

\* The inductive invariant without the part on the first streams.
Sound == StreamsOK /\ TimersOK /\ UiOK /\ RestOK

\* Sound is what IInv says apart from the first streams.
LEMMA SoundIs ==
    Sound <=> /\ TypeOK
              /\ ReloadCanLoad
              /\ memo.blocked = (seen.loaded \/ seen.loading)
BY DEF Sound, StreamsOK, TimersOK, UiOK, RestOK, TypeOK, ReloadCanLoad, Loadable, Streams

\* The loaders, unloadStream and scheduleReload keep their parts of Sound.
LEMMA LoadSound ==
    ASSUME StreamsOK, UiOK, NEW call \in LoadCalls, Load(call)
    PROVE  StreamsOK' /\ isLoading' \in BOOLEAN /\ hasError' \in BOOLEAN
<1>1. CASE Returns(call)
  BY <1>1 DEF Load, StreamsOK, UiOK, streamVars, Loadable
<1>2. CASE ~Returns(call)
  <2>1. PICK s \in Free :
          /\ stream' = [stream EXCEPT ![s] = NewStream(call)]
          /\ pcRef' = IF call.webRtc THEN s ELSE pcRef
          /\ hlsRef' = IF call.webRtc THEN hlsRef ELSE s
          /\ connectingRef' = IF call.webRtc THEN connectingRef ELSE s
          /\ isLoading' = TRUE
          /\ hasError' = FALSE
    BY <1>2 DEF Load
  <2>2. s \in Slots /\ stream \in [Slots -> Streams] /\ Loadable(stream)
    BY DEF Free, StreamsOK
  <2>3. NewStream(call) \in Streams /\ ~NewStream(call).from.blocked
    BY <1>2, NewStreamType DEF Returns
  <2>4. stream' \in [Slots -> Streams]
    BY <2>1, <2>2, <2>3
  <2>5. Loadable(stream)'
    BY <2>1, <2>2, <2>3 DEF Loadable
  <2>6. /\ hlsRef' \in Slots \cup {NoSlot} /\ pcRef' \in Slots \cup {NoSlot}
        /\ connectingRef' \in Slots \cup {NoSlot}
    BY <2>1, <2>2 DEF StreamsOK
  <2> QED
    BY <2>1, <2>4, <2>5, <2>6 DEF StreamsOK
<1> QED
  BY <1>1, <1>2

\* Closing and clearing timers keep what StreamsOK says of the streams.
LEMMA ClosedLoadable ==
    ASSUME NEW st \in [Slots -> Streams], Loadable(st), NEW S
    PROVE  Closed(st, S) \in [Slots -> Streams] /\ Loadable(Closed(st, S))
BY ClosedType DEF Loadable

LEMMA UntimedLoadable ==
    ASSUME NEW st \in [Slots -> Streams], Loadable(st), NEW ref
    PROVE  Untimed(st, ref) \in [Slots -> Streams] /\ Loadable(Untimed(st, ref))
BY UntimedType DEF Loadable

LEMMA UnloadSound ==
    ASSUME StreamsOK, TimersOK, UiOK, Unload
    PROVE  StreamsOK' /\ TimersOK' /\ isLoaded' \in BOOLEAN /\ isLoading' \in BOOLEAN
<1>1. stream' = Untimed(Closed(stream, {hlsRef, pcRef}), connectingRef)
  BY DEF Unload
<1>2. stream' \in [Slots -> Streams] /\ Loadable(stream)'
  BY <1>1, ClosedLoadable, UntimedLoadable DEF StreamsOK, Loadable
<1>3. StreamsOK'
  BY <1>2 DEF Unload, StreamsOK
<1>4. TimersOK'
  BY DEF Unload, TimersOK, ErrorPhase
<1>5. isLoaded' \in BOOLEAN /\ isLoading' \in BOOLEAN
  BY DEF Unload
<1> QED
  BY <1>3, <1>4, <1>5

LEMMA ScheduleReloadSound ==
    ASSUME StreamsOK, TimersOK, UiOK,
           NEW from \in Closures, ~from.blocked,
           NEW st \in [Slots -> Streams], Loadable(st),
           NEW pc \in Slots \cup {NoSlot}, NEW timer \in Slots \cup {NoSlot},
           ScheduleReload(from, st, pc, timer)
    PROVE  StreamsOK' /\ TimersOK' /\ UiOK'
<1>1. CASE reloadTimer # {}
  <2>1. /\ stream' = st /\ pcRef' = pc /\ connectingRef' = timer
        /\ UNCHANGED <<hlsRef, reloadTimer, attempt, isLoaded, isLoading, hasError>>
    BY <1>1 DEF ScheduleReload
  <2>2. StreamsOK'
    BY <2>1 DEF StreamsOK, Loadable
  <2>3. TimersOK'
    BY <2>1 DEF TimersOK
  <2>4. UiOK'
    BY <2>1 DEF UiOK
  <2> QED
    BY <2>2, <2>3, <2>4
<1>2. CASE reloadTimer = {}
  <2>1. /\ stream' = Untimed(Closed(st, {hlsRef, pc}), timer)
        /\ hlsRef' = NoSlot /\ pcRef' = NoSlot /\ connectingRef' = NoSlot
        /\ reloadTimer' = {from}
        /\ attempt' = IF attempt < ErrorPhase THEN attempt + 1 ELSE attempt
        /\ isLoaded' = FALSE
        /\ isLoading' = (attempt + 1 < ErrorPhase)
        /\ hasError' = (attempt + 1 >= ErrorPhase)
    BY <1>2 DEF ScheduleReload, ReloadWith
  <2>2. stream' \in [Slots -> Streams] /\ Loadable(stream)'
    BY <2>1, ClosedLoadable, UntimedLoadable DEF Loadable
  <2>3. StreamsOK'
    BY <2>1, <2>2 DEF StreamsOK
  <2>4. TimersOK'
    BY <2>1 DEF TimersOK, ErrorPhase
  <2>5. (attempt + 1 < ErrorPhase) \in BOOLEAN /\ (attempt + 1 >= ErrorPhase) \in BOOLEAN
    OBVIOUS
  <2>6. UiOK'
    BY <2>1, <2>5, Zenon DEF UiOK
  <2> QED
    BY <2>3, <2>4, <2>6
<1> QED
  BY <1>1, <1>2
-----------------------------------------------------------------------------

\* The loaders of a render are blocked when it sees a stream loaded or loading.
LEMMA NewMemoBlocks ==
    ASSUME Sound
    PROVE  NewMemo \in Closures /\ NewMemo.blocked = (isLoaded \/ isLoading)
<1>1. /\ seen \in [visible : BOOLEAN, loaded : BOOLEAN, loading : BOOLEAN, webRtc : BOOLEAN]
      /\ memo \in Closures /\ memo.blocked = (seen.loaded \/ seen.loading)
      /\ isLoaded \in BOOLEAN /\ isLoading \in BOOLEAN /\ isVisible \in BOOLEAN /\ useWebRtc \in BOOLEAN
  BY DEF Sound, RestOK, UiOK
<1>2. CASE seen.loaded # isLoaded \/ seen.loading # isLoading
  BY <1>1, <1>2 DEF NewMemo, Closures
<1>3. CASE ~(seen.loaded # isLoaded \/ seen.loading # isLoading)
  <2>1. NewMemo = memo
    BY <1>3 DEF NewMemo
  <2> QED
    BY <1>1, <1>3, <2>1
<1> QED
  BY <1>2, <1>3

\* Each kind of step keeps Sound.
LEMMA RenderSound == Sound /\ Render => Sound'
<1> SUFFICES ASSUME Sound, Render  PROVE Sound'
  OBVIOUS
<1> DEFINE call == [webRtc |-> useWebRtc, from |-> NewMemo]
<1>1. useWebRtc \in BOOLEAN
  BY DEF Sound, RestOK
<1>2. NewMemo \in Closures /\ NewMemo.blocked = (isLoaded \/ isLoading)
  BY NewMemoBlocks
<1>3. call \in LoadCalls
  BY <1>1, <1>2 DEF LoadCalls
<1>4. delayTimer' \subseteq LoadCalls
  <2>1. delayTimer' = {} \/ delayTimer' = {call}
    BY DEF Render
  <2> QED
    BY <1>3, <2>1
<1>5. RestOK'
  <2>1. /\ seen' \in [visible : BOOLEAN, loaded : BOOLEAN, loading : BOOLEAN, webRtc : BOOLEAN]
        /\ seen'.loaded = isLoaded /\ seen'.loading = isLoading
    BY <1>1 DEF Render, Deps, Sound, UiOK, RestOK
  <2>2. memo' = NewMemo
    BY DEF Render
  <2> QED
    BY <1>2, <1>4, <2>1, <2>2 DEF Render, Sound, RestOK
<1>6. CASE Unload /\ UNCHANGED hasError
  BY <1>5, <1>6, UnloadSound DEF Sound, UiOK
<1>7. CASE Load(call) /\ UNCHANGED <<reloadTimer, attempt, isLoaded>>
  <2>1. StreamsOK' /\ isLoading' \in BOOLEAN /\ hasError' \in BOOLEAN
    BY <1>3, <1>7, LoadSound DEF Sound
  <2> QED
    BY <1>5, <1>7, <2>1 DEF Sound, UiOK, TimersOK
<1>8. CASE UNCHANGED <<streamVars, reloadTimer, attempt, isLoaded, isLoading, hasError>>
  BY <1>5, <1>8 DEF Sound, UiOK, TimersOK, StreamsOK, Loadable, streamVars
<1> QED
  BY <1>6, <1>7, <1>8 DEF Render

\* What every step but a render leaves alone keeps the rest of the invariant.
LEMMA RestKept ==
    ASSUME RestOK, UNCHANGED <<expanded, useWebRtc, memo, seen, retries>>,
           mounted' \in BOOLEAN, isVisible' \in BOOLEAN,
           delayTimer' \subseteq delayTimer, retryTimer' \subseteq retryTimer
    PROVE  RestOK'
BY DEF RestOK

LEMMA StreamStepSound == \A s \in Slots : Sound /\ StreamStep(s) => Sound'
<1> SUFFICES ASSUME NEW s \in Slots, Sound, StreamStep(s)  PROVE Sound'
  OBVIOUS
<1> USE DEF Sound
<1>1. /\ stream \in [Slots -> Streams] /\ Loadable(stream)
      /\ stream[s] \in Streams /\ stream[s].from \in Closures /\ ~stream[s].from.blocked
      /\ pcRef \in Slots \cup {NoSlot} /\ connectingRef \in Slots \cup {NoSlot} /\ NoSlot \in Slots \cup {NoSlot}
  BY DEF StreamsOK, Streams, Loadable
<1>2. RestOK'
  BY RestKept DEF StreamStep, OfferAnswered, OfferFails, Plays, Fails, TimesOut, uiVars, renderVars, RestOK
<1>3. CASE OfferAnswered(s)
  <2>1. stream' \in [Slots -> Streams] /\ Loadable(stream)'
    BY <1>1, <1>3 DEF OfferAnswered, Streams, Phases, Loadable
  <2> QED
    BY <1>2, <1>3, <2>1 DEF OfferAnswered, StreamsOK, TimersOK, UiOK, uiVars
<1>4. CASE OfferFails(s)
  <2> DEFINE st == [stream EXCEPT ![s].phase = IF @ = "aborted" THEN "closed" ELSE "failed"]
  <2>1. st \in [Slots -> Streams] /\ Loadable(st)
    BY <1>1 DEF Streams, Phases, Loadable
  <2>2. ScheduleReload(stream[s].from, st, pcRef, connectingRef)
    BY <1>4 DEF OfferFails
  <2> QED
    BY <1>1, <1>2, <2>1, <2>2, ScheduleReloadSound
<1>5. CASE Plays(s)
  <2> DEFINE st == [stream EXCEPT ![s].phase = "playing"]
  <2>1. st \in [Slots -> Streams] /\ Loadable(st)
    BY <1>1 DEF Streams, Phases, Loadable
  <2>2. stream' = Untimed(st, connectingRef)
    BY <1>5 DEF Plays
  <2>3. stream' \in [Slots -> Streams] /\ Loadable(stream)'
    BY <2>1, <2>2, UntimedLoadable DEF Loadable
  <2>4. StreamsOK'
    BY <1>5, <2>3 DEF Plays, StreamsOK
  <2>5. TimersOK'
    BY <1>5 DEF Plays, TimersOK, ErrorPhase
  <2>6. UiOK'
    BY <1>5 DEF Plays, UiOK
  <2> QED
    BY <1>2, <2>4, <2>5, <2>6
<1>6. CASE Fails(s)
  <2> DEFINE st == [stream EXCEPT ![s].phase = "failed"]
  <2>1. st \in [Slots -> Streams] /\ Loadable(st)
    BY <1>1 DEF Streams, Phases, Loadable
  <2>2. ScheduleReload(stream[s].from, Untimed(st, connectingRef), pcRef, NoSlot)
    BY <1>6 DEF Fails
  <2>3. Untimed(st, connectingRef) \in [Slots -> Streams] /\ Loadable(Untimed(st, connectingRef))
    BY <2>1, UntimedLoadable
  <2> QED
    BY <1>1, <1>2, <2>2, <2>3, ScheduleReloadSound
<1>7. CASE TimesOut(s)
  <2>1. CASE ScheduleReload(stream[s].from, Untimed(Closed(stream, {s}), s), NoSlot, NoSlot)
    <3>1. /\ Untimed(Closed(stream, {s}), s) \in [Slots -> Streams]
          /\ Loadable(Untimed(Closed(stream, {s}), s))
      BY <1>1, ClosedLoadable, UntimedLoadable
    <3> QED
      BY <1>1, <1>2, <2>1, <3>1, ScheduleReloadSound
  <2>2. CASE ScheduleReload(stream[s].from, Untimed(stream, s), pcRef, NoSlot)
    <3>1. Untimed(stream, s) \in [Slots -> Streams] /\ Loadable(Untimed(stream, s))
      BY <1>1, UntimedLoadable
    <3> QED
      BY <1>1, <1>2, <2>2, <3>1, ScheduleReloadSound
  <2> QED
    BY <1>7, <2>1, <2>2 DEF TimesOut
<1> QED
  BY <1>3, <1>4, <1>5, <1>6, <1>7 DEF StreamStep
LEMMA TimerSound == Sound /\ (ReloadFires \/ DelayFires \/ RetryFires) => Sound'
<1> SUFFICES ASSUME Sound, ReloadFires \/ DelayFires \/ RetryFires  PROVE Sound'
  OBVIOUS
<1> USE DEF Sound
<1>1. RestOK'
  BY RestKept DEF ReloadFires, DelayFires, RetryFires, renderVars, RestOK
<1>2. TimersOK' /\ isLoaded' \in BOOLEAN
  BY DEF ReloadFires, DelayFires, RetryFires, TimersOK, UiOK
<1>3. CASE UNCHANGED <<streamVars, isLoading, hasError>>
  BY <1>1, <1>2, <1>3 DEF StreamsOK, Loadable, UiOK, streamVars
<1>4. CASE \E call \in LoadCalls : Load(call)
  <2>1. StreamsOK' /\ isLoading' \in BOOLEAN /\ hasError' \in BOOLEAN
    BY <1>4, LoadSound
  <2> QED
    BY <1>1, <1>2, <2>1 DEF UiOK
<1>5. CASE ReloadFires
  <2>1. CASE \E from \in reloadTimer : Load([webRtc |-> from.webRtc, from |-> from])
    <3>1. PICK from \in reloadTimer : Load([webRtc |-> from.webRtc, from |-> from])
      BY <2>1
    <3>2. from \in Closures
      BY DEF TimersOK
    <3>3. [webRtc |-> from.webRtc, from |-> from] \in LoadCalls
      BY <3>2 DEF LoadCalls, Closures
    <3> QED
      BY <1>4, <3>1, <3>3
  <2> QED
    BY <1>3, <1>5, <2>1 DEF ReloadFires
<1>6. CASE DelayFires \/ RetryFires
  <2>1. \E call \in LoadCalls : Load(call)
    BY <1>6 DEF DelayFires, RetryFires, RestOK
  <2> QED
    BY <1>4, <2>1
<1> QED
  BY <1>5, <1>6

LEMMA UserSound == Sound /\ (Scroll \/ Unmount \/ Retry \/ TryHlsInstead) => Sound'
<1> SUFFICES ASSUME Sound, Scroll \/ Unmount \/ Retry \/ TryHlsInstead  PROVE Sound'
  OBVIOUS
<1> USE DEF Sound
<1>1. CASE Scroll
  <2>1. RestOK'
    BY <1>1, RestKept DEF Scroll, renderVars, RestOK
  <2> QED
    BY <1>1, <2>1 DEF Scroll, streamVars, StreamsOK, Loadable, TimersOK, UiOK
<1>2. CASE Unmount
  <2>1. RestOK'
    BY <1>2, RestKept DEF Unmount, uiVars, RestOK
  <2>2. stream' = Untimed(stream, connectingRef)
    BY <1>2 DEF Unmount
  <2>3. stream' \in [Slots -> Streams] /\ Loadable(stream)'
    BY <2>2, UntimedLoadable DEF StreamsOK, Loadable
  <2>4. StreamsOK'
    BY <1>2, <2>3 DEF Unmount, StreamsOK
  <2> QED
    BY <1>2, <2>1, <2>4 DEF Unmount, uiVars, TimersOK, UiOK
<1>3. CASE Retry \/ TryHlsInstead
  <2>1. RetryLoad /\ (useWebRtc' = useWebRtc \/ useWebRtc' = FALSE)
    BY <1>3 DEF Retry, TryHlsInstead
  <2>2. retries' \in 0..MaxRetries
    BY <2>1, TileAssumption DEF RetryLoad, ErrorCard, RestOK
  <2>3. retryTimer' \subseteq LoadCalls
    BY <2>1 DEF RetryLoad, RestOK, LoadCalls
  <2>4. useWebRtc' \in BOOLEAN
    BY <2>1 DEF RestOK
  <2>5. RestOK'
    BY <2>1, <2>2, <2>3, <2>4 DEF RetryLoad, renderVars, RestOK
  <2>6. StreamsOK'
    BY <2>1 DEF RetryLoad, streamVars, StreamsOK, Loadable
  <2>7. TimersOK'
    BY <2>1 DEF RetryLoad, TimersOK, ErrorPhase
  <2>8. UiOK'
    BY <2>1 DEF RetryLoad, UiOK
  <2> QED
    BY <2>5, <2>6, <2>7, <2>8
<1> QED
  BY <1>1, <1>2, <1>3

LEMMA Soundness == Sound /\ [Next]_vars => Sound'
<1> SUFFICES ASSUME Sound, [Next]_vars  PROVE Sound'
  OBVIOUS
<1>1. CASE UNCHANGED vars
  BY <1>1 DEF vars, uiVars, renderVars, streamVars, Sound, StreamsOK, Loadable, TimersOK, UiOK, RestOK
<1> QED
  BY <1>1, RenderSound, StreamStepSound, TimerSound, UserSound DEF Next

LEMMA InitSound == Init => Sound
<1> SUFFICES ASSUME Init  PROVE Sound
  OBVIOUS
<1>1. Fresh \in Closures /\ ~Fresh.blocked
  BY DEF Fresh, Closures
<1>2. StreamsOK
  BY <1>1 DEF Init, StreamsOK, Streams, Phases, Loadable
<1>3. TimersOK
  BY DEF Init, TimersOK, ErrorPhase
<1>4. RestOK
  <2>1. /\ seen \in [visible : BOOLEAN, loaded : BOOLEAN, loading : BOOLEAN, webRtc : BOOLEAN]
        /\ memo.blocked = (seen.loaded \/ seen.loading)
    BY DEF Init, Fresh
  <2>2. retries \in 0..MaxRetries
    BY TileAssumption DEF Init
  <2> QED
    BY <1>1, <2>1, <2>2 DEF Init, RestOK
<1>5. UiOK
  BY DEF Init, UiOK
<1> QED
  BY <1>2, <1>3, <1>4, <1>5 DEF Sound
-----------------------------------------------------------------------------
(***************************************************************************)
(* The streams until the first retry by hand.                              *)
(***************************************************************************)

Quiet == \A s \in Slots : stream[s].phase = "closed"

\* Facts about the only open object.
LEMMA NoSlotIsNone == NoSlot \notin Slots
BY TileAssumption DEF NoSlot

\* At most one object is not closed.
LEMMA OnlyOne ==
    ASSUME OneAtATime, NEW s \in Slots, NEW t \in Slots,
           stream[s].phase # "closed", stream[t].phase # "closed"
    PROVE  s = t
BY NoSlotIsNone DEF OneAtATime

LEMMA PlayingAlone ==
    ASSUME OneAtATime, isLoaded, NEW s \in Slots, stream[s].phase # "closed"
    PROVE  stream[s].phase = "playing"
<1>1. PICK t \in Slots : stream[t].phase = "playing"
  BY DEF OneAtATime
<1> QED
  BY <1>1, OnlyOne

\* A step after which no object is open.
LEMMA Emptied ==
    ASSUME hlsRef' = NoSlot, pcRef' = NoSlot, retryTimer' = {}, ~isLoaded',
           \A s \in Slots : stream'[s].phase = "closed" /\ ~stream'[s].timed,
           isLoading' => seen'.webRtc = useWebRtc',
           reloadTimer' # {} => (isLoading' \/ hasError') /\ \A call \in delayTimer' : call.from.blocked
    PROVE  OneAtATime'
BY NoSlotIsNone DEF OneAtATime

\* A step that creates an object when none is open.
LEMMA LoadedFirst ==
    ASSUME StreamsOK, OneAtATime, Quiet, NEW call \in LoadCalls, Load(call), ~Returns(call),
           reloadTimer' = {}, retryTimer' = {}, UNCHANGED isLoaded, seen'.webRtc = useWebRtc',
           \A later \in delayTimer' : later.from.blocked
    PROVE  OneAtATime'
<1>1. PICK s \in Free :
        /\ stream' = [stream EXCEPT ![s] = NewStream(call)]
        /\ pcRef' = IF call.webRtc THEN s ELSE pcRef
        /\ hlsRef' = IF call.webRtc THEN hlsRef ELSE s
        /\ connectingRef' = IF call.webRtc THEN connectingRef ELSE s
        /\ isLoading' = TRUE
        /\ hasError' = FALSE
  BY DEF Load
<1>2. s \in Slots
  BY DEF Free
<1>3. hlsRef = NoSlot /\ pcRef = NoSlot
  BY DEF OneAtATime, Quiet, StreamsOK
<1>4. ~isLoaded
  BY DEF OneAtATime, Quiet
<1>5. /\ stream'[s].phase \in {"offering", "connecting"}
      /\ stream'[s].timed => stream'[s].phase = "connecting" /\ connectingRef' = s
  BY <1>1, <1>2, NewStreamType DEF StreamsOK
<1>6. \A t \in Slots : t # s => stream'[t].phase = "closed" /\ ~stream'[t].timed
  BY <1>1, <1>2 DEF StreamsOK, Quiet, OneAtATime
<1>7. \/ hlsRef' = s /\ pcRef' = NoSlot
      \/ hlsRef' = NoSlot /\ pcRef' = s
  BY <1>1, <1>3
<1>8. isLoading' /\ ~isLoaded'
  BY <1>1, <1>4
<1> QED
  BY <1>2, <1>5, <1>6, <1>7, <1>8, NoSlotIsNone DEF OneAtATime

\* A step in which the only open object reports its end.
LEMMA ReloadScheduled ==
    ASSUME Sound, OneAtATime, NEW s \in Slots, stream[s].phase # "closed",
           NEW from, NEW st \in [Slots -> Streams], NEW pc, NEW timer,
           ScheduleReload(from, st, pc, timer),
           st[s].phase \notin {"offering", "aborted"},
           st[s].phase = "closed" \/ s = hlsRef \/ s = pc,
           st[s].timed => timer = s,
           \A t \in Slots \ {s} : st[t].phase = stream[t].phase /\ (st[t].timed => stream[t].timed),
           UNCHANGED <<seen, useWebRtc, delayTimer, retryTimer>>
    PROVE  OneAtATime'
<1>1. /\ reloadTimer = {} /\ retryTimer = {}
      /\ seen.webRtc = useWebRtc
      /\ \A call \in delayTimer : call.from.blocked
  BY DEF OneAtATime
<1>2. /\ stream' = Untimed(Closed(st, {hlsRef, pc}), timer)
      /\ hlsRef' = NoSlot /\ pcRef' = NoSlot
      /\ isLoaded' = FALSE
      /\ isLoading' = (attempt + 1 < ErrorPhase)
      /\ hasError' = (attempt + 1 >= ErrorPhase)
  BY <1>1 DEF ScheduleReload
<1>3. \A t \in Slots \ {s} : st[t].phase = "closed" /\ ~st[t].timed
  BY OnlyOne DEF OneAtATime
<1>4. Closed(st, {hlsRef, pc}) \in [Slots -> Streams]
  BY ClosedType
<1>5. ASSUME NEW t \in Slots  PROVE stream'[t].phase = "closed" /\ ~stream'[t].timed
  <2> DEFINE cl == Closed(st, {hlsRef, pc})
  <2>1. cl[t].phase = "closed"
    BY <1>3, ClosedType
  <2>2. cl \in [Slots -> Streams] /\ stream' = Untimed(cl, timer)
    BY <1>2, <1>4
  <2> HIDE DEF cl
  <2>3. stream'[t].phase = "closed"
    BY <2>1, <2>2, UntimedType
  <2>4. stream'[t].timed => cl[t].timed /\ t # timer
    BY <2>2, UntimedType
  <2>5. cl[t].timed = st[t].timed
    BY ClosedType DEF cl
  <2> QED
    BY <1>3, <2>3, <2>4, <2>5
<1>6. isLoading' \/ hasError'
  <2>1. (attempt + 1 < ErrorPhase) \/ (attempt + 1 >= ErrorPhase)
    BY DEF Sound, TimersOK, ErrorPhase
  <2> QED
    BY <1>2, <2>1
<1> QED
  BY <1>1, <1>2, <1>5, <1>6, Emptied

\* Each kind of step keeps OneAtATime.
LEMMA FirstStreamStep ==
    ASSUME Sound, OneAtATime, NEW s \in Slots, StreamStep(s)
    PROVE  OneAtATime'
<1>1. /\ stream \in [Slots -> Streams] /\ stream[s] \in Streams
      /\ pcRef \in Slots \cup {NoSlot} /\ connectingRef \in Slots \cup {NoSlot}
      /\ stream[s].phase \notin {"aborted", "failed"}
      /\ stream[s].timed => stream[s].phase = "connecting" /\ connectingRef = s
  BY DEF Sound, StreamsOK, OneAtATime
<1>2. stream[s].phase # "closed"
  BY <1>1 DEF StreamStep, OfferAnswered, OfferFails, Plays, Fails, TimesOut
<1>3. /\ s \in {hlsRef, pcRef} /\ reloadTimer = {} /\ retryTimer = {} /\ (isLoading \/ isLoaded)
      /\ seen.webRtc = useWebRtc
      /\ \A call \in delayTimer : call.from.blocked
  BY <1>2 DEF OneAtATime
<1>refs. s = hlsRef \/ s = pcRef
  BY <1>2 DEF OneAtATime
<1>4. \A t \in Slots \ {s} : stream[t].phase = "closed" /\ ~stream[t].timed /\ t \notin {hlsRef, pcRef}
  BY <1>2, OnlyOne DEF OneAtATime
<1>5. UNCHANGED <<seen, useWebRtc, delayTimer, retryTimer>>
  BY DEF StreamStep, OfferAnswered, OfferFails, Plays, Fails, TimesOut, uiVars, renderVars
<1>6. CASE OfferAnswered(s)
  <2>1. /\ stream[s].phase = "offering"
        /\ stream' = [stream EXCEPT ![s].phase = "connecting", ![s].timed = TRUE]
        /\ connectingRef' = s
        /\ UNCHANGED <<hlsRef, pcRef, reloadTimer, isLoading, isLoaded>>
    BY <1>6 DEF OfferAnswered, uiVars
  <2>2. ~isLoaded
    BY <1>2, <2>1, PlayingAlone
  <2>3. stream'[s].phase = "connecting"
    BY <1>1, <2>1 DEF Streams
  <2>4. \A t \in Slots \ {s} : stream'[t] = stream[t]
    BY <1>1, <2>1
  <2>5. hlsRef' = NoSlot \/ pcRef' = NoSlot
    BY <2>1 DEF OneAtATime
  <2> QED
    BY <1>3, <1>4, <1>5, <2>1, <2>2, <2>3, <2>4, <2>5 DEF OneAtATime
<1>7. CASE OfferFails(s)
  <2> DEFINE st == [stream EXCEPT ![s].phase = IF @ = "aborted" THEN "closed" ELSE "failed"]
  <2>1. st \in [Slots -> Streams]
    BY <1>1 DEF Streams, Phases
  <2>2. ScheduleReload(stream[s].from, st, pcRef, connectingRef)
    BY <1>7 DEF OfferFails
  <2>3. st[s].phase = "failed" /\ st[s].timed = stream[s].timed
    BY <1>1 DEF Streams
  <2>4. \A t \in Slots \ {s} : st[t].phase = stream[t].phase /\ (st[t].timed => stream[t].timed)
    BY <1>1
  <2> HIDE DEF st
  <2>5. st[s].phase \notin {"offering", "aborted"}
    BY <2>3
  <2>6. st[s].timed => connectingRef = s
    BY <1>1, <2>3
  <2> QED
    BY <1>2, <1>refs, <1>5, <2>1, <2>2, <2>4, <2>5, <2>6, ReloadScheduled
<1>8. CASE Plays(s)
  <2> DEFINE st == [stream EXCEPT ![s].phase = "playing"]
  <2>1. st \in [Slots -> Streams]
    BY <1>1 DEF Streams, Phases
  <2>2. /\ stream' = Untimed(st, connectingRef)
        /\ isLoaded' = TRUE
        /\ UNCHANGED <<hlsRef, pcRef, reloadTimer>>
    BY <1>8 DEF Plays
  <2>3. st[s].phase = "playing" /\ st[s].timed = stream[s].timed
    BY <1>1 DEF Streams
  <2>4. \A t \in Slots \ {s} : st[t] = stream[t]
    BY <1>1
  <2> HIDE DEF st
  <2>5. stream'[s].phase = "playing" /\ ~stream'[s].timed
    BY <1>1, <2>1, <2>2, <2>3, UntimedType
  <2>6. \A t \in Slots \ {s} : stream'[t].phase = "closed" /\ ~stream'[t].timed
    BY <1>4, <2>1, <2>2, <2>4, UntimedType
  <2>7. hlsRef' = NoSlot \/ pcRef' = NoSlot
    BY <2>2 DEF OneAtATime
  <2> QED
    BY <1>3, <1>4, <1>5, <2>2, <2>5, <2>6, <2>7 DEF OneAtATime
<1>9. CASE Fails(s)
  <2> DEFINE st == [stream EXCEPT ![s].phase = "failed"]
             un == Untimed(st, connectingRef)
  <2>1. st \in [Slots -> Streams]
    BY <1>1 DEF Streams, Phases
  <2>2. ScheduleReload(stream[s].from, un, pcRef, NoSlot)
    BY <1>9 DEF Fails
  <2>3. st[s].phase = "failed" /\ st[s].timed = stream[s].timed
    BY <1>1 DEF Streams
  <2>4. \A t \in Slots \ {s} : st[t] = stream[t]
    BY <1>1
  <2> HIDE DEF st
  <2>5. un \in [Slots -> Streams] /\ un[s].phase = "failed" /\ ~un[s].timed
    BY <1>1, <2>1, <2>3, UntimedType
  <2>6. \A t \in Slots \ {s} : un[t].phase = stream[t].phase /\ (un[t].timed => stream[t].timed)
    BY <2>1, <2>4, UntimedType
  <2> HIDE DEF un
  <2>7. un[s].phase \notin {"offering", "aborted"}
    BY <2>5
  <2> QED
    BY <1>2, <1>refs, <1>5, <2>2, <2>5, <2>6, <2>7, ReloadScheduled
<1>10. CASE TimesOut(s)
  <2>1. stream[s].phase = "connecting"
    BY <1>1, <1>10 DEF TimesOut
  <2>2. CASE ScheduleReload(stream[s].from, Untimed(Closed(stream, {s}), s), NoSlot, NoSlot)
    <3> DEFINE un == Untimed(Closed(stream, {s}), s)
    <3>1. Closed(stream, {s}) \in [Slots -> Streams] /\ Closed(stream, {s})[s].phase = "closed"
      BY <1>1, <2>1, ClosedType
    <3>2. un \in [Slots -> Streams] /\ un[s].phase = "closed" /\ ~un[s].timed
      BY <3>1, UntimedType
    <3>3. \A t \in Slots \ {s} : Closed(stream, {s})[t] = stream[t]
      BY <1>1, ClosedType
    <3>4. \A t \in Slots \ {s} : un[t] = stream[t]
      BY <3>1, <3>3, UntimedType
    <3>5. ScheduleReload(stream[s].from, un, NoSlot, NoSlot)
      BY <2>2
    <3> HIDE DEF un
    <3> QED
      BY <1>2, <1>5, <3>2, <3>4, <3>5, ReloadScheduled
  <2>3. CASE ScheduleReload(stream[s].from, Untimed(stream, s), pcRef, NoSlot)
    <3> DEFINE un == Untimed(stream, s)
    <3>1. /\ un \in [Slots -> Streams]
          /\ un[s].phase = "connecting" /\ ~un[s].timed
          /\ \A t \in Slots \ {s} : un[t] = stream[t]
      BY <1>1, <2>1, UntimedType
    <3>2. ScheduleReload(stream[s].from, un, pcRef, NoSlot)
      BY <2>3
    <3> HIDE DEF un
    <3>3. un[s].phase \notin {"offering", "aborted"}
      BY <3>1
    <3>4. \A t \in Slots \ {s} : un[t].phase = stream[t].phase /\ (un[t].timed => stream[t].timed)
      BY <3>1
    <3> QED
      BY <1>2, <1>refs, <1>5, <3>1, <3>2, <3>3, <3>4, ReloadScheduled
  <2> QED
    BY <1>10, <2>2, <2>3 DEF TimesOut
<1> QED
  BY <1>6, <1>7, <1>8, <1>9, <1>10 DEF StreamStep

\* A step that leaves the streams and what the tile shows of them alone, and at
\* most drops the pending reload or the delayed load.
LEMMA StreamsKept ==
    ASSUME OneAtATime, UNCHANGED <<hlsRef, pcRef, connectingRef, stream, isLoaded, isLoading, hasError, useWebRtc>>,
           retryTimer' = {}, seen'.webRtc = seen.webRtc \/ seen'.webRtc = useWebRtc,
           reloadTimer' = {} \/ reloadTimer' = reloadTimer,
           delayTimer' = {} \/ delayTimer' = delayTimer
    PROVE  OneAtATime'
<1> USE DEF OneAtATime
<1>1. \A call \in delayTimer' : call \in delayTimer
  OBVIOUS
<1>2. \A s \in Slots :
        stream'[s].phase # "closed" =>
            /\ reloadTimer' = {}
            /\ isLoading' \/ isLoaded'
            /\ \A call \in delayTimer' : call.from.blocked
  BY <1>1
<1>3. \A s \in Slots :
        /\ stream'[s].phase \notin {"aborted", "failed"}
        /\ stream'[s].phase # "closed" <=> s \in {hlsRef', pcRef'}
        /\ stream'[s].timed => stream'[s].phase = "connecting" /\ connectingRef' = s
  OBVIOUS
<1>4. isLoaded' => \E s \in {hlsRef', pcRef'} \cap Slots : stream'[s].phase = "playing"
  OBVIOUS
<1>5. isLoaded' \/ isLoading' => seen'.webRtc = useWebRtc'
  OBVIOUS
<1>6. reloadTimer' # {} => /\ isLoading' \/ hasError'
                           /\ \A call \in delayTimer' : call.from.blocked
  BY <1>1
<1> QED
  BY <1>2, <1>3, <1>4, <1>5, <1>6

LEMMA FirstRender ==
    ASSUME Sound, OneAtATime, Render
    PROVE  OneAtATime'
<1> DEFINE call == [webRtc |-> useWebRtc, from |-> NewMemo]
<1>1. NewMemo \in Closures /\ NewMemo.blocked = (isLoaded \/ isLoading) /\ call \in LoadCalls
  BY NewMemoBlocks DEF LoadCalls, Sound, RestOK
<1>2. /\ retryTimer' = {} /\ UNCHANGED useWebRtc
      /\ seen'.webRtc = useWebRtc
  BY DEF Render, Deps, OneAtATime
<1>3. CASE MustUnload /\ delayTimer' = {} /\ Unload
  <2>1. isLoaded
    BY <1>3 DEF MustUnload, SwitchesProtocol, OneAtATime
  <2>2. ASSUME NEW s \in Slots  PROVE stream'[s].phase = "closed" /\ ~stream'[s].timed
    <3> DEFINE cl == Closed(stream, {hlsRef, pcRef})
    <3>1. stream \in [Slots -> Streams] /\ stream' = Untimed(cl, connectingRef)
      BY <1>3 DEF Sound, StreamsOK, Unload
    <3>2. stream[s].phase = "closed" \/ (stream[s].phase = "playing" /\ s \in {hlsRef, pcRef})
      <4>1. stream[s].phase # "closed" => stream[s].phase = "playing"
        BY <2>1, PlayingAlone
      <4>2. stream[s].phase # "closed" => s \in {hlsRef, pcRef}
        BY DEF OneAtATime
      <4> QED
        BY <4>1, <4>2
    <3>3. ~stream[s].timed
      BY <3>2 DEF OneAtATime
    <3>4. cl[s].phase = "closed" /\ ~cl[s].timed
      BY <3>1, <3>2, <3>3, ClosedType
    <3>5. cl \in [Slots -> Streams]
      BY <3>1, ClosedType
    <3> HIDE DEF cl
    <3> QED
      BY <3>1, <3>4, <3>5, UntimedType
  <2>3. /\ hlsRef' = NoSlot /\ pcRef' = NoSlot /\ reloadTimer' = {}
        /\ ~isLoaded' /\ ~isLoading'
    BY <1>3 DEF Unload
  <2> QED
    BY <1>2, <2>2, <2>3, Emptied
<1>4. CASE ~MustUnload /\ Wanted /\ delayTimer' = {call}
           /\ UNCHANGED <<streamVars, reloadTimer, attempt, isLoaded, isLoading, hasError>>
  <2>1. UNCHANGED <<hlsRef, pcRef, connectingRef, stream, reloadTimer, isLoaded, isLoading, hasError>>
    BY <1>4 DEF streamVars
  <2>2. ~hasError
    BY <1>4 DEF Wanted
  <2>3. isLoading \/ isLoaded => \A later \in delayTimer' : later.from.blocked
    <3>1. \A later \in delayTimer' : later.from = NewMemo
      BY <1>4
    <3> QED
      BY <1>1, <3>1
  <2>4. \A s \in Slots : stream[s].phase # "closed" => isLoading \/ isLoaded
    BY DEF OneAtATime
  <2>5. reloadTimer # {} => isLoading
    BY <2>2 DEF OneAtATime
  <2>6. \A s \in Slots :
          stream[s].phase # "closed" =>
              /\ reloadTimer = {}
              /\ isLoading \/ isLoaded
              /\ \A later \in delayTimer' : later.from.blocked
    BY <2>3, <2>4 DEF OneAtATime
  <2>7. reloadTimer # {} => /\ isLoading \/ hasError
                            /\ \A later \in delayTimer' : later.from.blocked
    BY <2>3, <2>5
  <2> QED
    BY <1>2, <2>1, <2>6, <2>7 DEF OneAtATime
<1>5. CASE ~MustUnload /\ Wanted /\ delayTimer' = {} /\ Load(call)
           /\ UNCHANGED <<reloadTimer, attempt, isLoaded>>
  <2>1. CASE Returns(call)
    <3>1. UNCHANGED <<hlsRef, pcRef, connectingRef, stream, isLoaded, isLoading, hasError, useWebRtc>>
      BY <1>2, <1>5, <2>1 DEF Load, streamVars
    <3> QED
      BY <1>2, <1>5, <3>1, StreamsKept
  <2>2. CASE ~Returns(call)
    <3>1. ~isLoaded /\ ~isLoading /\ ~hasError
      BY <1>1, <1>5, <2>2 DEF Returns, Wanted
    <3>2. Quiet
      BY <3>1 DEF Quiet, OneAtATime
    <3>3. reloadTimer' = {}
      BY <1>5, <3>1 DEF OneAtATime
    <3>4. StreamsOK
      BY DEF Sound
    <3>5. seen'.webRtc = useWebRtc' /\ UNCHANGED isLoaded /\ retryTimer' = {} /\ delayTimer' = {}
      BY <1>2, <1>5
    <3> HIDE DEF call
    <3> QED
      BY <1>1, <1>5, <2>2, <3>2, <3>3, <3>4, <3>5, LoadedFirst
  <2> QED
    BY <2>1, <2>2
<1>6. CASE delayTimer' = {}
           /\ UNCHANGED <<streamVars, reloadTimer, attempt, isLoaded, isLoading, hasError>>
  BY <1>2, <1>6, StreamsKept DEF streamVars
<1> QED
  BY <1>3, <1>4, <1>5, <1>6 DEF Render

LEMMA FirstTimer ==
    ASSUME Sound, OneAtATime, ReloadFires \/ DelayFires \/ RetryFires
    PROVE  OneAtATime'
<1>1. ~RetryFires /\ retryTimer = {} /\ retryTimer' = {}
  BY DEF RetryFires, ReloadFires, DelayFires, OneAtATime
<1>2. StreamsOK /\ TimersOK /\ delayTimer \subseteq LoadCalls
  BY DEF Sound, RestOK
<1>3. UNCHANGED <<isLoaded, useWebRtc, seen>>
  BY <1>1 DEF ReloadFires, DelayFires, renderVars
<1>4. mounted => seen.webRtc = useWebRtc
  <2>1. Rendered
    BY DEF RetryFires, ReloadFires, DelayFires
  <2>2. Deps.webRtc = useWebRtc
    BY DEF Deps
  <2> QED
    BY <2>1, <2>2 DEF Rendered
<1>5. CASE ReloadFires
  <2>1. Quiet /\ \A call \in delayTimer : call.from.blocked
    BY <1>5 DEF ReloadFires, Quiet, OneAtATime
  <2>2. reloadTimer' = {} /\ delayTimer' = delayTimer
    BY <1>5 DEF ReloadFires, renderVars
  <2>3. CASE UNCHANGED <<streamVars, isLoading, hasError>>
    BY <1>1, <1>3, <2>2, <2>3, StreamsKept DEF streamVars
  <2>4. CASE \E from \in reloadTimer : Load([webRtc |-> from.webRtc, from |-> from])
    <3>1. PICK from \in reloadTimer : Load([webRtc |-> from.webRtc, from |-> from])
      BY <2>4
    <3> DEFINE call == [webRtc |-> from.webRtc, from |-> from]
    <3>2. call \in LoadCalls
      BY <1>2 DEF TimersOK, LoadCalls, Closures
    <3>3. Load(call)
      BY <3>1
    <3> HIDE DEF call
    <3>4. CASE Returns(call)
      BY <2>3, <3>3, <3>4 DEF Load
    <3>5. CASE ~Returns(call)
      <4>1. seen'.webRtc = useWebRtc'
        BY <1>3, <1>4, <3>5 DEF Returns
      <4> QED
        BY <1>1, <1>2, <1>3, <2>1, <2>2, <3>2, <3>3, <3>5, <4>1, LoadedFirst
    <3> QED
      BY <3>4, <3>5
  <2> QED
    BY <1>5, <2>3, <2>4 DEF ReloadFires
<1>6. CASE DelayFires
  <2>1. PICK call \in delayTimer : Load(call)
    BY <1>6 DEF DelayFires
  <2>2. delayTimer' = {} /\ reloadTimer' = reloadTimer
    BY <1>6 DEF DelayFires
  <2>3. CASE Returns(call)
    <3>1. UNCHANGED <<streamVars, isLoading, hasError>>
      BY <2>1, <2>3 DEF Load
    <3> QED
      BY <1>1, <1>3, <2>2, <3>1, StreamsKept DEF streamVars
  <2>4. CASE ~Returns(call)
    <3>1. ~call.from.blocked /\ mounted
      BY <2>4 DEF Returns
    <3>2. Quiet /\ reloadTimer = {}
      BY <2>1, <3>1 DEF Quiet, OneAtATime
    <3>3. seen'.webRtc = useWebRtc'
      BY <1>3, <1>4, <3>1
    <3> QED
      BY <1>1, <1>2, <1>3, <2>1, <2>2, <2>4, <3>2, <3>3, LoadedFirst
  <2> QED
    BY <2>3, <2>4
<1> QED
  BY <1>1, <1>5, <1>6

LEMMA FirstUser ==
    ASSUME Sound, OneAtATime, Scroll \/ Unmount
    PROVE  OneAtATime'
<1>1. retryTimer = {}
  BY DEF OneAtATime
<1>2. CASE Scroll
  BY <1>1, <1>2, StreamsKept DEF Scroll, renderVars, streamVars
<1>3. CASE Unmount
  <2>1. /\ stream \in [Slots -> Streams] /\ stream' = Untimed(stream, connectingRef)
        /\ delayTimer' = {} /\ reloadTimer' = {} /\ retryTimer' = {}
        /\ UNCHANGED <<isLoaded, isLoading, useWebRtc, seen, hlsRef, pcRef, connectingRef>>
    BY <1>1, <1>3 DEF Unmount, uiVars, Sound, StreamsOK
  <2>2. \A s \in Slots : stream'[s].phase = stream[s].phase
    BY <2>1, UntimedType
  <2>3. \A s \in Slots : ~stream'[s].timed
    BY <2>1, UntimedType DEF OneAtATime
  <2> QED
    BY <2>1, <2>2, <2>3 DEF OneAtATime
<1> QED
  BY <1>2, <1>3

\* Retries by hand are not taken back.
LEMMA RetriesGrow ==
    ASSUME Sound, [Next]_vars, retries' = 0
    PROVE  retries = 0 /\ ~Retry /\ ~TryHlsInstead
<1>1. retries \in Nat
  BY TileAssumption DEF Sound, RestOK
<1>2. ~Retry /\ ~TryHlsInstead
  BY <1>1 DEF Retry, TryHlsInstead, RetryLoad
<1> QED
  BY <1>2 DEF Next, vars, Render, Scroll, Unmount, StreamStep, OfferAnswered, OfferFails, Plays, Fails, TimesOut,
              ReloadFires, DelayFires, RetryFires

-----------------------------------------------------------------------------

\* The inductive invariant holds whatever renders, effects, timers, stream events
\* and clicks come in whatever order, with any number of objects and retries.
THEOREM Invariance == Spec => []IInv
<1> DEFINE Inv == Sound /\ (retries = 0 => OneAtATime)
<1>1. Init => Inv
  <2> SUFFICES ASSUME Init  PROVE OneAtATime
    BY InitSound
  <2> QED
    BY Emptied, NoSlotIsNone DEF Init, OneAtATime
<1>2. Inv /\ [Next]_vars => Inv'
  <2> SUFFICES ASSUME Inv, [Next]_vars, retries' = 0  PROVE OneAtATime'
    BY Soundness
  <2>1. retries = 0 /\ ~Retry /\ ~TryHlsInstead /\ Sound /\ OneAtATime
    BY RetriesGrow
  <2>2. CASE UNCHANGED vars
    <3>1. /\ UNCHANGED <<hlsRef, pcRef, connectingRef, stream, isLoaded, isLoading, hasError, useWebRtc>>
          /\ seen' = seen /\ retryTimer' = retryTimer /\ reloadTimer' = reloadTimer /\ delayTimer' = delayTimer
      BY <2>2 DEF vars, uiVars, renderVars, streamVars
    <3>2. retryTimer = {}
      BY <2>1 DEF OneAtATime
    <3> QED
      BY <2>1, <3>1, <3>2, StreamsKept
  <2> QED
    BY <2>1, <2>2, FirstRender, FirstStreamStep, FirstTimer, FirstUser DEF Next
<1>3. Inv => IInv
  BY SoundIs DEF IInv
<1> QED
  BY <1>1, <1>2, <1>3, PTL DEF Spec

\* No two streams play or load in one tile until the user retries by hand: the
\* refs name the only one, so that unloadStream releases it.
THEOREM SingleStream == Spec => []OneStream
<1>1. IInv => OneStream
  <2> SUFFICES ASSUME IInv, retries = 0
               PROVE  Cardinality(LiveStreams) <= 1 /\ LiveStreams \subseteq {hlsRef, pcRef}
    BY DEF OneStream
  <2>1. OneAtATime
    BY DEF IInv
  <2>2. \A s \in LiveStreams : s \in Slots /\ stream[s].phase # "closed"
    BY DEF LiveStreams, Live
  <2>3. LiveStreams \subseteq {hlsRef, pcRef}
    BY <2>1, <2>2 DEF OneAtATime
  <2>4. \A s, t \in LiveStreams : s = t
    BY <2>1, <2>2, OnlyOne
  <2>5. Cardinality(LiveStreams) <= 1
    <3>1. CASE LiveStreams = {}
      BY <3>1, FS_EmptySet
    <3>2. CASE LiveStreams # {}
      <4>1. PICK s : LiveStreams = {s}
        BY <2>4, <3>2
      <4>2. Cardinality({s}) = 1
        BY FS_Singleton
      <4> QED
        BY <4>1, <4>2
    <3> QED
      BY <3>1, <3>2
  <2> QED
    BY <2>3, <2>5
<1> QED
  BY <1>1, Invariance, PTL

\* A tile that shows a picture has a stream that plays.
THEOREM PictureIsPlaying == Spec => []LoadedIsPlaying
<1>1. IInv => LoadedIsPlaying
  BY DEF IInv, OneAtATime, LoadedIsPlaying
<1> QED
  BY <1>1, Invariance, PTL

-----------------------------------------------------------------------------
(***************************************************************************)
(* That a tile in view stays tended.                                       *)
(***************************************************************************)

\* What Working consists of: an open object, a render that will load, a load that
\* the effect has delayed and one that retryLoad has scheduled.
Open == \E s \in Slots : stream[s].phase # "closed"
ToRender == seen # Deps /\ Wanted /\ ~isLoading
Delayed == \E call \in delayTimer : ~call.from.blocked
Retrying == \E call \in retryTimer : ~call.from.blocked

LEMMA WorkingIs == Sound => (Working <=> Open \/ ToRender \/ reloadTimer # {} \/ Delayed \/ Retrying)
BY DEF Working, Open, ToRender, Delayed, Retrying, Sound, TimersOK

\* Between "Try HLS instead" and the render no error can come back: it takes three
\* failures, and the first waits for its reload.
SwitchInv == mounted /\ seen.webRtc # useWebRtc => ~hasError /\ (attempt = 0 \/ reloadTimer # {})

\* The render that saw the tile out of sight has dropped the delayed load.
HiddenInv == mounted /\ ~seen.visible => delayTimer = {}

\* A delayed load that will not return was made by a tile that was idle; that it is
\* not so any more is the work of a stream, which is there or has its reload pending.
DelayInv == mounted /\ (isLoaded \/ isLoading \/ hasError) /\ Delayed => Open \/ reloadTimer # {}

SingleInv ==
    /\ \A a, b \in delayTimer : a = b
    /\ \A a, b \in retryTimer : a = b

\* The inductive invariant of what tends a tile, beside Sound.
TendInv == SwitchInv /\ HiddenInv /\ DelayInv /\ SingleInv

\* A loader opens an object or does nothing; it opens one if it is not blocked.
LEMMA LoadOpens ==
    ASSUME StreamsOK, NEW call \in LoadCalls, Load(call)
    PROVE  /\ Open' \/ UNCHANGED <<streamVars, isLoading, hasError>>
           /\ mounted /\ ~call.from.blocked => Open'
<1>1. CASE Returns(call)
  BY <1>1 DEF Load, Returns
<1>2. CASE ~Returns(call)
  <2>1. PICK s \in Free : stream' = [stream EXCEPT ![s] = NewStream(call)]
    BY <1>2 DEF Load
  <2>2. s \in Slots /\ stream \in [Slots -> Streams]
    BY DEF Free, StreamsOK
  <2>3. stream'[s].phase # "closed"
    BY <2>1, <2>2, NewStreamType
  <2> QED
    BY <2>2, <2>3 DEF Open
<1> QED
  BY <1>1, <1>2

\* After a stream's end a reload is pending.
Schedules ==
    /\ reloadTimer' # {}
    /\ \/ reloadTimer # {} /\ UNCHANGED <<attempt, hasError>>
       \/ reloadTimer = {} /\ hasError' = (attempt + 1 >= ErrorPhase)
    /\ UNCHANGED <<mounted, isVisible, useWebRtc, seen, delayTimer, retryTimer>>

LEMMA ScheduleReloadSchedules ==
    ASSUME NEW from, NEW st, NEW pc, NEW timer, ScheduleReload(from, st, pc, timer),
           UNCHANGED <<mounted, isVisible, useWebRtc, seen, delayTimer, retryTimer>>
    PROVE  Schedules
<1>1. CASE reloadTimer # {}
  BY <1>1 DEF ScheduleReload, Schedules
<1>2. CASE reloadTimer = {}
  BY <1>2 DEF ScheduleReload, Schedules
<1> QED
  BY <1>1, <1>2

LEMMA EndsSchedule ==
    ASSUME NEW s \in Slots, OfferFails(s) \/ Fails(s) \/ TimesOut(s)
    PROVE  Schedules
<1>1. CASE OfferFails(s)
  BY <1>1, ScheduleReloadSchedules DEF OfferFails, renderVars
<1>2. CASE Fails(s)
  BY <1>2, ScheduleReloadSchedules DEF Fails, renderVars
<1>3. CASE TimesOut(s)
  BY <1>3, ScheduleReloadSchedules DEF TimesOut, renderVars
<1> QED
  BY <1>1, <1>2, <1>3

\* The events that leave an object open.
Opens ==
    /\ Open'
    /\ attempt' = attempt \/ attempt' = 0
    /\ UNCHANGED <<mounted, isVisible, hasError, useWebRtc, seen, delayTimer, retryTimer, reloadTimer>>

LEMMA EventOpens ==
    ASSUME Sound, NEW s \in Slots, OfferAnswered(s) \/ Plays(s)
    PROVE  Opens
<1>1. stream \in [Slots -> Streams]
  BY DEF Sound, StreamsOK
<1>2. CASE OfferAnswered(s)
  <2>1. stream'[s].phase = "connecting"
    BY <1>1, <1>2 DEF OfferAnswered, Streams
  <2> QED
    BY <1>2, <2>1 DEF OfferAnswered, Opens, Open, uiVars, renderVars
<1>3. CASE Plays(s)
  <2> DEFINE st == [stream EXCEPT ![s].phase = "playing"]
  <2>1. st \in [Slots -> Streams] /\ st[s].phase = "playing"
    BY <1>1 DEF Streams, Phases
  <2>2. stream' = Untimed(st, connectingRef)
    BY <1>3 DEF Plays
  <2> HIDE DEF st
  <2>3. stream'[s].phase = "playing"
    BY <2>1, <2>2, UntimedType
  <2> QED
    BY <1>3, <2>3 DEF Plays, Opens, Open, renderVars
<1> QED
  BY <1>2, <1>3

LEMMA StreamStepIs ==
    ASSUME Sound, NEW s \in Slots, StreamStep(s)
    PROVE  Schedules \/ Opens
BY EndsSchedule, EventOpens DEF StreamStep

-----------------------------------------------------------------------------

\* What a render makes of the loads to come.
LEMMA RenderIs ==
    ASSUME Sound, Render
    PROVE  /\ mounted /\ UNCHANGED <<mounted, isVisible, useWebRtc, retryTimer>>
           /\ seen' = Deps /\ seen # Deps
           /\ \/ /\ MustUnload /\ delayTimer' = {} /\ UNCHANGED hasError
                 /\ isLoaded' = FALSE /\ isLoading' = FALSE
              \/ /\ ~MustUnload
                 /\ Open' \/ UNCHANGED <<streamVars, isLoading, hasError>>
                 /\ UNCHANGED <<reloadTimer, isLoaded>>
                 /\ \/ delayTimer' = {}
                    \/ Wanted /\ delayTimer' = {[webRtc |-> useWebRtc, from |-> NewMemo]}
                 /\ Wanted /\ ~isLoading => Open' \/ Delayed'
<1> DEFINE call == [webRtc |-> useWebRtc, from |-> NewMemo]
<1>1. NewMemo \in Closures /\ NewMemo.blocked = (isLoaded \/ isLoading)
  BY NewMemoBlocks
<1>2. call \in LoadCalls /\ call.from = NewMemo
  BY <1>1 DEF LoadCalls, Sound, RestOK
<1>3. Wanted /\ ~isLoading => ~call.from.blocked
  BY <1>1, <1>2 DEF Wanted
<1>4. /\ mounted /\ UNCHANGED <<mounted, isVisible, useWebRtc, retryTimer>>
      /\ seen' = Deps /\ seen # Deps
  BY DEF Render
<1> HIDE DEF call
<1>5. \/ /\ MustUnload /\ delayTimer' = {} /\ Unload /\ UNCHANGED hasError
      \/ /\ ~MustUnload /\ Wanted /\ delayTimer' = {call}
         /\ UNCHANGED <<streamVars, reloadTimer, isLoaded, isLoading, hasError>>
      \/ /\ ~MustUnload /\ Wanted /\ delayTimer' = {} /\ Load(call)
         /\ UNCHANGED <<reloadTimer, isLoaded>>
      \/ /\ ~MustUnload /\ ~Wanted /\ delayTimer' = {}
         /\ UNCHANGED <<streamVars, reloadTimer, isLoaded, isLoading, hasError>>
  BY DEF Render, call
<1>6. ASSUME delayTimer' = {call}, Wanted, ~isLoading  PROVE Delayed'
  BY <1>3, <1>6 DEF Delayed
<1>7. ASSUME Load(call)
      PROVE  /\ Open' \/ UNCHANGED <<streamVars, isLoading, hasError>>
             /\ Wanted /\ ~isLoading => Open'
  BY <1>2, <1>3, <1>4, <1>7, LoadOpens DEF Sound
<1>8. delayTimer' = {call} => delayTimer' = {[webRtc |-> useWebRtc, from |-> NewMemo]}
  BY DEF call
<1> QED
  BY <1>4, <1>5, <1>6, <1>7, <1>8 DEF Unload

\* A timer fires after the render, and the reload only in view.
LEMMA TimerIs ==
    ASSUME Sound, mounted, ReloadFires \/ DelayFires \/ RetryFires
    PROVE  /\ seen = Deps
           /\ UNCHANGED <<mounted, isVisible, isLoaded, useWebRtc, seen>>
           /\ Open' \/ UNCHANGED <<streamVars, isLoading, hasError>>
           /\ delayTimer' \subseteq delayTimer /\ retryTimer' \subseteq retryTimer
           /\ reloadTimer' = reloadTimer \/ (isVisible => Open')
<1>0. seen = Deps
  BY DEF ReloadFires, DelayFires, RetryFires, Rendered
<1>1. CASE ReloadFires
  <2>1. CASE isVisible
    <3>1. PICK from \in reloadTimer : Load([webRtc |-> from.webRtc, from |-> from])
      BY <1>1, <2>1 DEF ReloadFires, ReloadGoesOn
    <3>2. [webRtc |-> from.webRtc, from |-> from] \in LoadCalls /\ ~from.blocked
      BY DEF Sound, TimersOK, LoadCalls, Closures
    <3>3. Open'
      BY <3>1, <3>2, LoadOpens DEF Sound
    <3> QED
      BY <1>0, <1>1, <3>3 DEF ReloadFires, renderVars
  <2>2. CASE ~isVisible
    BY <1>0, <1>1, <2>2 DEF ReloadFires, ReloadGoesOn, renderVars
  <2> QED
    BY <2>1, <2>2
<1>2. CASE DelayFires
  <2>1. PICK call \in delayTimer : Load(call)
    BY <1>2 DEF DelayFires
  <2>2. Open' \/ UNCHANGED <<streamVars, isLoading, hasError>>
    BY <2>1, LoadOpens DEF Sound, RestOK
  <2> QED
    BY <1>0, <1>2, <2>2 DEF DelayFires
<1>3. CASE RetryFires
  <2>1. PICK call \in retryTimer : Load(call)
    BY <1>3 DEF RetryFires
  <2>2. Open' \/ UNCHANGED <<streamVars, isLoading, hasError>>
    BY <2>1, LoadOpens DEF Sound, RestOK
  <2> QED
    BY <1>0, <1>3, <2>2 DEF RetryFires, renderVars
<1> QED
  BY <1>1, <1>2, <1>3

\* The two buttons of the error card.
LEMMA ButtonIs ==
    ASSUME Retry \/ TryHlsInstead
    PROVE  /\ seen = Deps /\ isVisible /\ mounted /\ hasError /\ retryTimer = {}
           /\ isLoaded' = FALSE /\ isLoading' = FALSE /\ hasError' = FALSE /\ attempt' = 0
           /\ UNCHANGED <<mounted, isVisible, seen, memo, delayTimer, stream>>
           /\ \E rtc : retryTimer' = {[webRtc |-> rtc, from |-> memo]}
BY DEF Retry, TryHlsInstead, RetryLoad, ErrorCard, Rendered, renderVars, streamVars

-----------------------------------------------------------------------------

LEMMA TendRender == Sound /\ TendInv /\ Render => TendInv'
<1> SUFFICES ASSUME Sound, TendInv, Render  PROVE TendInv'
  OBVIOUS
<1>1. SwitchInv'
  BY RenderIs DEF SwitchInv, Deps
<1>2. HiddenInv'
  <2>1. seen'.visible = isVisible
    BY RenderIs DEF Deps
  <2>2. delayTimer' = {} \/ Wanted
    BY RenderIs
  <2> QED
    BY <2>1, <2>2 DEF HiddenInv, Wanted
<1>3. SingleInv'
  BY RenderIs DEF TendInv, SingleInv
<1>4. DelayInv'
  <2> SUFFICES ASSUME Delayed', isLoaded' \/ isLoading' \/ hasError', ~Open'  PROVE FALSE
    BY DEF DelayInv
  <2>1. /\ Wanted /\ delayTimer' = {[webRtc |-> useWebRtc, from |-> NewMemo]}
        /\ UNCHANGED <<isLoaded, isLoading, hasError>>
    BY RenderIs DEF Delayed
  <2>2. ~NewMemo.blocked
    BY <2>1 DEF Delayed
  <2> QED
    BY <2>1, <2>2, NewMemoBlocks DEF Wanted
<1> QED
  BY <1>1, <1>2, <1>3, <1>4 DEF TendInv

LEMMA TendStream == \A s \in Slots : Sound /\ TendInv /\ StreamStep(s) => TendInv'
<1> SUFFICES ASSUME NEW s \in Slots, Sound, TendInv, StreamStep(s)  PROVE TendInv'
  OBVIOUS
<1>1. CASE Schedules
  <2>1. SwitchInv'
    <3>1. reloadTimer = {} /\ attempt = 0 => (attempt + 1 >= ErrorPhase) = FALSE
      BY DEF ErrorPhase
    <3> QED
      BY <1>1, <3>1 DEF Schedules, TendInv, SwitchInv
  <2> QED
    BY <1>1, <2>1 DEF Schedules, TendInv, HiddenInv, DelayInv, SingleInv
<1>2. CASE Opens
  BY <1>2 DEF Opens, TendInv, SwitchInv, HiddenInv, DelayInv, SingleInv
<1> QED
  BY <1>1, <1>2, StreamStepIs

LEMMA TendTimer == Sound /\ TendInv /\ (ReloadFires \/ DelayFires \/ RetryFires) => TendInv'
<1> SUFFICES ASSUME Sound, TendInv, ReloadFires \/ DelayFires \/ RetryFires  PROVE TendInv'
  OBVIOUS
<1>0. CASE ~mounted
  <2>1. /\ ~mounted' /\ delayTimer' \subseteq delayTimer /\ retryTimer' \subseteq retryTimer
    BY <1>0 DEF ReloadFires, DelayFires, RetryFires, renderVars
  <2> QED
    BY <2>1 DEF TendInv, SwitchInv, HiddenInv, DelayInv, SingleInv
<1>1. CASE mounted
  <2>1. SwitchInv'
    BY <1>1, TimerIs DEF SwitchInv, Deps
  <2>2. HiddenInv'
    BY <1>1, TimerIs DEF TendInv, HiddenInv
  <2>3. SingleInv'
    BY <1>1, TimerIs DEF TendInv, SingleInv
  <2>4. DelayInv'
    <3> SUFFICES ASSUME Delayed', isLoaded' \/ isLoading' \/ hasError', ~Open'
                 PROVE  reloadTimer' # {}
      BY DEF DelayInv
    <3>1. UNCHANGED <<stream, isLoaded, isLoading, hasError>> /\ Delayed
      BY <1>1, TimerIs DEF Delayed, streamVars
    <3>2. reloadTimer # {}
      BY <1>1, <3>1 DEF TendInv, DelayInv, Open
    <3>3. isVisible
      <4>1. seen.visible = isVisible
        <5>1. seen = Deps
          BY <1>1, TimerIs
        <5> QED
          BY <5>1 DEF Deps
      <4> QED
        BY <1>1, <3>1, <4>1 DEF TendInv, HiddenInv, Delayed
    <3> QED
      BY <1>1, <3>2, <3>3, TimerIs
  <2> QED
    BY <2>1, <2>2, <2>3, <2>4 DEF TendInv
<1> QED
  BY <1>0, <1>1 DEF Sound, RestOK

LEMMA TendUser == Sound /\ TendInv /\ (Scroll \/ Unmount \/ Retry \/ TryHlsInstead) => TendInv'
<1> SUFFICES ASSUME Sound, TendInv, Scroll \/ Unmount \/ Retry \/ TryHlsInstead  PROVE TendInv'
  OBVIOUS
<1>1. CASE Scroll
  BY <1>1 DEF Scroll, renderVars, streamVars, TendInv, SwitchInv, HiddenInv, DelayInv, SingleInv, Delayed, Open
<1>2. CASE Unmount
  BY <1>2 DEF Unmount, TendInv, SwitchInv, HiddenInv, DelayInv, SingleInv
<1>3. CASE Retry \/ TryHlsInstead
  BY <1>3, ButtonIs DEF TendInv, SwitchInv, HiddenInv, DelayInv, SingleInv
<1> QED
  BY <1>1, <1>2, <1>3

LEMMA TendNext == Sound /\ TendInv /\ [Next]_vars => TendInv'
<1> SUFFICES ASSUME Sound, TendInv, [Next]_vars  PROVE TendInv'
  OBVIOUS
<1>1. CASE UNCHANGED vars
  BY <1>1 DEF vars, uiVars, renderVars, streamVars, TendInv, SwitchInv, HiddenInv, DelayInv, SingleInv, Delayed, Open
<1> QED
  BY <1>1, TendRender, TendStream, TendTimer, TendUser DEF Next

LEMMA InitTend == Init => TendInv
BY DEF Init, TendInv, SwitchInv, HiddenInv, DelayInv, SingleInv

\* A step in view that leaves neither a stream nor a load to come had none before.
LEMMA StepTends ==
    ASSUME Sound, Sound', TendInv, [Next]_vars, isVisible, isVisible', mounted', Working
    PROVE  Working'
<1>0. /\ Open \/ ToRender \/ reloadTimer # {} \/ Delayed \/ Retrying
      /\ Open' \/ ToRender' \/ reloadTimer' # {} \/ Delayed' \/ Retrying' => Working'
  <2>1. Open \/ ToRender \/ reloadTimer # {} \/ Delayed \/ Retrying
    BY WorkingIs
  <2>2. Open' \/ ToRender' \/ reloadTimer' # {} \/ Delayed' \/ Retrying' => Working'
    BY DEF Working, Open, ToRender, Delayed, Retrying, Sound, TimersOK
  <2> QED
    BY <2>1, <2>2
<1>1. CASE UNCHANGED vars
  BY <1>0, <1>1 DEF vars, uiVars, renderVars, streamVars, Open, ToRender, Deps, Wanted, Delayed, Retrying
<1>2. CASE Render
  <2>1. CASE MustUnload
    <3>1. SwitchesProtocol /\ mounted
      BY <1>2, <2>1, RenderIs DEF MustUnload
    <3>2. ~hasError /\ (isLoaded \/ isLoading)
      BY <3>1 DEF SwitchesProtocol, TendInv, SwitchInv
    <3>3. ~hasError' /\ isLoaded' = FALSE /\ isLoading' = FALSE /\ seen' = Deps
      BY <1>2, <2>1, <3>2, RenderIs
    <3>4. seen' # Deps'
      BY <3>2, <3>3 DEF Deps
    <3>5. ToRender'
      BY <3>3, <3>4 DEF ToRender, Wanted
    <3> QED
      BY <1>0, <3>5
  <2>2. CASE ~MustUnload /\ ~Open'
    <3>1. /\ UNCHANGED <<stream, isLoading, hasError, reloadTimer, isLoaded, retryTimer>>
          /\ Wanted /\ ~isLoading => Delayed'
      BY <1>2, <2>2, RenderIs DEF streamVars
    <3>2. CASE Retrying \/ reloadTimer # {}
      BY <1>0, <3>1, <3>2 DEF Retrying
    <3>3. CASE Wanted /\ ~isLoading
      BY <1>0, <3>1, <3>3
    <3>4. CASE Delayed /\ ~(Wanted /\ ~isLoading) /\ reloadTimer = {}
      <4>1. mounted /\ (isLoaded \/ isLoading \/ hasError)
        BY <1>2, <3>4, RenderIs DEF Wanted
      <4>2. Open
        BY <3>4, <4>1 DEF TendInv, DelayInv
      <4> QED
        BY <2>2, <3>1, <4>2 DEF Open
    <3>5. ~Open
      BY <2>2, <3>1 DEF Open
    <3> QED
      BY <1>0, <3>2, <3>3, <3>4, <3>5 DEF ToRender
  <2> QED
    BY <1>0, <2>1, <2>2
<1>3. ASSUME NEW s \in Slots, StreamStep(s)  PROVE Working'
  BY <1>0, <1>3, StreamStepIs DEF Schedules, Opens
<1>4. CASE (ReloadFires \/ DelayFires \/ RetryFires) /\ ~Open'
  <2>0. mounted
    BY <1>4 DEF ReloadFires, DelayFires, RetryFires
  <2>1. /\ seen = Deps /\ UNCHANGED <<stream, reloadTimer>>
    BY <1>4, <2>0, TimerIs DEF streamVars
  <2>2. ~Open /\ ~ToRender
    BY <1>4, <2>1 DEF Open, ToRender
  <2>3. ASSUME Delayed  PROVE Delayed'
    <3>1. ASSUME DelayFires  PROVE FALSE
      <4>1. PICK call \in delayTimer : Load(call)
        BY <3>1 DEF DelayFires
      <4>2. ~call.from.blocked /\ call \in LoadCalls
        BY <2>3 DEF Delayed, TendInv, SingleInv, Sound, RestOK
      <4> QED
        BY <1>4, <2>0, <4>1, <4>2, LoadOpens DEF Sound
    <3>2. delayTimer' = delayTimer
      BY <1>4, <3>1 DEF ReloadFires, RetryFires, renderVars
    <3> QED
      BY <2>3, <3>2 DEF Delayed
  <2>4. ASSUME Retrying  PROVE Retrying'
    <3>1. ASSUME RetryFires  PROVE FALSE
      <4>1. PICK call \in retryTimer : Load(call)
        BY <3>1 DEF RetryFires
      <4>2. ~call.from.blocked /\ call \in LoadCalls
        BY <2>4 DEF Retrying, TendInv, SingleInv, Sound, RestOK
      <4> QED
        BY <1>4, <2>0, <4>1, <4>2, LoadOpens DEF Sound
    <3>2. retryTimer' = retryTimer
      BY <1>4, <3>1 DEF ReloadFires, DelayFires
    <3> QED
      BY <2>4, <3>2 DEF Retrying
  <2> QED
    BY <1>0, <2>1, <2>2, <2>3, <2>4
<1>5. CASE Retry \/ TryHlsInstead
  <2>1. CASE memo.blocked
    <3>1. isLoaded \/ isLoading
      <4>1. seen.loaded = isLoaded /\ seen.loading = isLoading
        <5>1. seen = Deps
          BY <1>5, ButtonIs
        <5> QED
          BY <5>1 DEF Deps
      <4> QED
        BY <2>1, <4>1 DEF Sound, RestOK
    <3>2. seen' # Deps'
      <4>1. seen' = Deps /\ isLoaded' = FALSE /\ isLoading' = FALSE
        BY <1>5, ButtonIs
      <4> QED
        BY <3>1, <4>1 DEF Deps
    <3>3. ToRender'
      BY <1>5, <3>2, ButtonIs DEF ToRender, Wanted
    <3> QED
      BY <1>0, <3>3
  <2>2. CASE ~memo.blocked
    <3>1. PICK rtc : retryTimer' = {[webRtc |-> rtc, from |-> memo]}
      BY <1>5, ButtonIs
    <3>2. [webRtc |-> rtc, from |-> memo].from = memo
      OBVIOUS
    <3>3. Retrying'
      BY <2>2, <3>1, <3>2 DEF Retrying
    <3> QED
      BY <1>0, <3>3
  <2> QED
    BY <2>1, <2>2
<1>6. CASE Scroll \/ Unmount
  BY <1>6 DEF Scroll, Unmount
<1> QED
  BY <1>0, <1>1, <1>2, <1>3, <1>4, <1>5, <1>6 DEF Next

\* A tile in view that has a stream, or a load to come, has one after the next
\* callback too, after any number of retries by hand and with any number of
\* streams that these have left behind.
THEOREM StaysTendedAlways == Spec => StaysTended
<1>1. Spec => []Sound
  BY InitSound, Soundness, PTL DEF Spec
<1>2. Spec => []TendInv
  BY <1>1, InitTend, TendNext, PTL DEF Spec
<1>3. Sound /\ Sound' /\ TendInv /\ [Next]_vars
         => [isVisible /\ Working => Working' \/ ~isVisible' \/ ~mounted']_vars
  BY StepTends
<1> QED
  BY <1>1, <1>2, <1>3, PTL DEF Spec, StaysTended

=============================================================================
