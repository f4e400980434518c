----------------------------- MODULE VideoTile -----------------------------
(***************************************************************************)
(* One tile of the video wall (frontend/src/components/LazyVideoPlayer.tsx)*)
(* for an online camera: a lazily loaded HLS or WebRTC stream with a       *)
(* reconnect loop.  The component runs in one thread; what interleaves are *)
(* renders with their effects, timers, the events of the streams, and the  *)
(* user.  A callback keeps the variables of the render that made it: here  *)
(* a closure [blocked, webRtc] stands for what the two loaders captured,   *)
(* isLoaded || isLoading and useWebRtc.  Slots stand for the Hls and       *)
(* RTCPeerConnection objects; the tile's refs hold at most one of each.    *)
(***************************************************************************)
EXTENDS Integers, FiniteSets

CONSTANTS
    Slots,          \* objects for streams, reused once closed and forgotten
    MaxRetries      \* bound on the clicks on "Retry" and "Try HLS instead"

ASSUME TileAssumption == Slots \subseteq Nat \ {0} /\ MaxRetries \in Nat

ErrorPhase == 3                 \* ERROR_PHASE_ATTEMPTS
NoSlot == 0

Closures == [blocked : BOOLEAN, webRtc : BOOLEAN]
\* A call of a loader: the one `webRtc` selects, as `from` captured it.
LoadCalls == [webRtc : BOOLEAN, from : Closures]

VARIABLES
    expanded,       \* prop: the tile fills the page and is to use WebRTC
    mounted,
    isVisible,      \* state and ref, which the observer sets together
    isLoaded, isLoading, hasError, useWebRtc,
    memo,           \* closure of the loaders of the last render
    seen,           \* what the effects of the last render depended on
    attempt,        \* reconnectAttemptRef, counted up to ErrorPhase
    hlsRef, pcRef,  \* slots
    connectingRef,  \* slot whose connecting timer the ref names
    reloadTimer,    \* closure of the pending reload, in a set of one, or {}
    delayTimer,     \* call that the load effect has delayed, likewise
    retryTimer,     \* call that retryLoad has scheduled, likewise
    stream,         \* slot -> [rtc, phase, timed, from]
    retries         \* clicks on the two buttons of the error card

uiVars == <<isVisible, isLoaded, isLoading, hasError, useWebRtc>>
renderVars == <<memo, seen, delayTimer>>
streamVars == <<hlsRef, pcRef, connectingRef, stream>>
vars == <<expanded, mounted, uiVars, renderVars, streamVars, attempt, reloadTimer, retryTimer, retries>>

\* offering: the awaits of loadWebRtc; aborted: closed during them; failed:
\* has reported its end.
Phases == {"closed", "offering", "aborted", "connecting", "playing", "failed"}
Live == {"offering", "connecting", "playing", "failed"}

\* The dependencies of the load effect; hasError is not one of them.
Deps == [visible |-> isVisible, loaded |-> isLoaded, loading |-> isLoading, webRtc |-> useWebRtc]

TypeOK ==
    /\ expanded \in BOOLEAN /\ mounted \in BOOLEAN
    /\ isVisible \in BOOLEAN /\ isLoaded \in BOOLEAN /\ isLoading \in BOOLEAN
    /\ hasError \in BOOLEAN /\ useWebRtc \in BOOLEAN
    /\ memo \in Closures
    /\ seen \in [visible : BOOLEAN, loaded : BOOLEAN, loading : BOOLEAN, webRtc : BOOLEAN]
    /\ attempt \in 0..ErrorPhase
    /\ hlsRef \in Slots \cup {NoSlot} /\ pcRef \in Slots \cup {NoSlot}
    /\ connectingRef \in Slots \cup {NoSlot}
    /\ reloadTimer \subseteq Closures
    /\ delayTimer \subseteq LoadCalls /\ retryTimer \subseteq LoadCalls
    /\ stream \in [Slots -> [rtc : BOOLEAN, phase : Phases, timed : BOOLEAN, from : Closures]]
    /\ retries \in 0..MaxRetries

Fresh == [blocked |-> FALSE, webRtc |-> FALSE]

\* The first render and its effects, of which setUseWebRtc(expanded) matters.
Init ==
    /\ expanded \in BOOLEAN
    /\ mounted = TRUE
    /\ isVisible = FALSE /\ isLoaded = FALSE /\ isLoading = FALSE /\ hasError = FALSE
    /\ useWebRtc = expanded
    /\ memo = Fresh
    /\ seen = [visible |-> FALSE, loaded |-> FALSE, loading |-> FALSE, webRtc |-> FALSE]
    /\ attempt = 0
    /\ hlsRef = NoSlot /\ pcRef = NoSlot /\ connectingRef = NoSlot
    /\ reloadTimer = {} /\ delayTimer = {} /\ retryTimer = {}
    /\ stream = [s \in Slots |-> [rtc |-> FALSE, phase |-> "closed", timed |-> FALSE, from |-> Fresh]]
    /\ retries = 0

-----------------------------------------------------------------------------
(***************************************************************************)
(* What the callbacks do to the streams.                                   *)
(***************************************************************************)

\* hls.destroy() and pc.close(); a loadWebRtc in its awaits will fail at the next.
Closed(st, S) ==
    [s \in Slots |->
        IF s \notin S THEN st[s]
        ELSE [st[s] EXCEPT !.phase = IF @ \in {"offering", "aborted"} THEN "aborted" ELSE "closed"]]

\* clearTimeout of the connecting timer that the ref named.
Untimed(st, ref) == [s \in Slots |-> IF s = ref THEN [st[s] EXCEPT !.timed = FALSE] ELSE st[s]]

Free == {s \in Slots \ {hlsRef, pcRef, connectingRef} : stream[s].phase = "closed" /\ ~stream[s].timed}

NewStream(call) ==
    [rtc |-> call.webRtc, phase |-> IF call.webRtc THEN "offering" ELSE "connecting",
     timed |-> ~call.webRtc, from |-> call.from]

\* Mutant of Returns: the loaders do not look at isLoaded and isLoading.
ReturnsUnmounted(call) == ~mounted

\* The loaders' early returns; without a <video> element nothing is created.
Returns(call) == call.from.blocked \/ ~mounted

\* loadHls and loadWebRtc up to its first await.
Load(call) ==
    IF Returns(call)
    THEN UNCHANGED <<streamVars, isLoading, hasError>>
    ELSE \E s \in Free :
           /\ \A t \in Free : s <= t
           /\ stream' = [stream EXCEPT ![s] = NewStream(call)]
           /\ pcRef' = IF call.webRtc THEN s ELSE pcRef
           /\ hlsRef' = IF call.webRtc THEN hlsRef ELSE s
           /\ connectingRef' = IF call.webRtc THEN connectingRef ELSE s
           /\ isLoading' = TRUE
           /\ hasError' = FALSE

\* Mutant of Unload: the Hls object is forgotten, not destroyed.
UnloadForgets ==
    /\ stream' = Untimed(Closed(stream, {pcRef}), connectingRef)
    /\ hlsRef' = NoSlot /\ pcRef' = NoSlot /\ connectingRef' = NoSlot
    /\ reloadTimer' = {}
    /\ attempt' = 0
    /\ isLoaded' = FALSE /\ isLoading' = FALSE

\* unloadStream.
Unload ==
    /\ stream' = Untimed(Closed(stream, {hlsRef, pcRef}), connectingRef)
    /\ hlsRef' = NoSlot /\ pcRef' = NoSlot /\ connectingRef' = NoSlot
    /\ reloadTimer' = {}
    /\ attempt' = 0
    /\ isLoaded' = FALSE /\ isLoading' = FALSE

\* Mutant of ReloadWith: the reload uses the loaders of the last render.
ReloadWithLatest(from) == memo

\* The loaders that a reload will call: those the failed stream's handler closes over.
ReloadWith(from) == from

\* scheduleReload, called by a handler that closes over `from` after it changed
\* the streams, pcRef and the ref of the connecting timer as given.
ScheduleReload(from, st, pc, timer) ==
    IF reloadTimer # {}
    THEN /\ stream' = st /\ pcRef' = pc /\ connectingRef' = timer
         /\ UNCHANGED <<hlsRef, reloadTimer, attempt, isLoaded, isLoading, hasError>>
    ELSE /\ stream' = Untimed(Closed(st, {hlsRef, pc}), timer)
         /\ hlsRef' = NoSlot /\ pcRef' = NoSlot /\ connectingRef' = NoSlot
         /\ reloadTimer' = {ReloadWith(from)}
         /\ attempt' = IF attempt < ErrorPhase THEN attempt + 1 ELSE attempt
         /\ isLoaded' = FALSE
         /\ isLoading' = (attempt + 1 < ErrorPhase)
         /\ hasError' = (attempt + 1 >= ErrorPhase)

-----------------------------------------------------------------------------
(***************************************************************************)
(* Renders and their effects.                                              *)
(***************************************************************************)

\* A render takes less than the shortest of the timers, retryLoad's 300 ms.
Rendered == mounted => seen = Deps

\* useCallback makes new loaders when isLoaded or isLoading has changed.
NewMemo ==
    IF seen.loaded # isLoaded \/ seen.loading # isLoading
    THEN [blocked |-> isLoaded \/ isLoading, webRtc |-> useWebRtc]
    ELSE memo

Wanted == isVisible /\ ~isLoaded /\ ~hasError

\* The effect on [useWebRtc] unloads; its own delayed load finds the loaders blocked.
SwitchesProtocol == seen.webRtc # useWebRtc /\ (isLoaded \/ isLoading)

\* Mutant of MustUnload: a stream is kept while the tile is out of sight.
MustUnloadOnSwitch == SwitchesProtocol

MustUnload == SwitchesProtocol \/ (~isVisible /\ isLoaded)

\* A render after a change, and its effects.  loadDelay > 0 is that of a later
\* batch of the wall; the page's first three tiles and the expanded one have none.
Render ==
    /\ mounted
    /\ seen # Deps
    /\ seen' = Deps
    /\ memo' = NewMemo
    /\ LET call == [webRtc |-> useWebRtc, from |-> NewMemo] IN
       \/ /\ MustUnload
          /\ delayTimer' = {}
          /\ Unload
          /\ UNCHANGED hasError
       \/ /\ ~MustUnload /\ Wanted /\ ~expanded
          /\ delayTimer' = {call}
          /\ UNCHANGED <<streamVars, reloadTimer, attempt, isLoaded, isLoading, hasError>>
       \/ /\ ~MustUnload /\ Wanted
          /\ delayTimer' = {}
          /\ Load(call)
          /\ UNCHANGED <<reloadTimer, attempt, isLoaded>>
       \/ /\ ~MustUnload /\ ~Wanted
          /\ delayTimer' = {}
          /\ UNCHANGED <<streamVars, reloadTimer, attempt, isLoaded, isLoading, hasError>>
    /\ UNCHANGED <<expanded, mounted, isVisible, useWebRtc, retryTimer, retries>>

\* The observer reports that the tile came into view or left it.
Scroll ==
    /\ mounted
    /\ isVisible' = ~isVisible
    /\ UNCHANGED <<expanded, mounted, isLoaded, isLoading, hasError, useWebRtc, renderVars, streamVars,
                   attempt, reloadTimer, retryTimer, retries>>

\* The wall turns its page, closes the expanded view or is left.  Timers that the
\* refs name are cleared; streams are not destroyed, nor is the retry's timer.
Unmount ==
    /\ mounted
    /\ mounted' = FALSE
    /\ stream' = Untimed(stream, connectingRef)
    /\ reloadTimer' = {}
    /\ delayTimer' = {}
    /\ UNCHANGED <<expanded, uiVars, memo, seen, hlsRef, pcRef, connectingRef, attempt, retryTimer, retries>>

-----------------------------------------------------------------------------
(***************************************************************************)
(* Events of the streams.                                                  *)
(***************************************************************************)

\* The awaits of loadWebRtc are over, and its timer starts.
OfferAnswered(s) ==
    /\ stream[s].phase = "offering"
    /\ stream' = [stream EXCEPT ![s].phase = "connecting", ![s].timed = TRUE]
    /\ connectingRef' = s
    /\ UNCHANGED <<expanded, mounted, uiVars, renderVars, hlsRef, pcRef, attempt, reloadTimer, retryTimer, retries>>

\* catch: an await of loadWebRtc failed, or its connection was closed meanwhile.
OfferFails(s) ==
    /\ stream[s].phase \in {"offering", "aborted"}
    /\ ScheduleReload(stream[s].from,
                      [stream EXCEPT ![s].phase = IF @ = "aborted" THEN "closed" ELSE "failed"],
                      pcRef, connectingRef)
    /\ UNCHANGED <<expanded, mounted, isVisible, useWebRtc, renderVars, retryTimer, retries>>

\* MANIFEST_PARSED, or the track plays.
Plays(s) ==
    /\ stream[s].phase = "connecting"
    /\ stream' = Untimed([stream EXCEPT ![s].phase = "playing"], connectingRef)
    /\ connectingRef' = NoSlot
    /\ attempt' = 0
    /\ isLoaded' = TRUE
    /\ isLoading' = FALSE
    /\ UNCHANGED <<expanded, mounted, isVisible, hasError, useWebRtc, renderVars, hlsRef, pcRef,
                   reloadTimer, retryTimer, retries>>

\* A fatal error of hls.js, or a lost ICE connection.
Fails(s) ==
    /\ stream[s].phase \in {"connecting", "playing"}
    /\ ScheduleReload(stream[s].from,
                      Untimed([stream EXCEPT ![s].phase = "failed"], connectingRef), pcRef, NoSlot)
    /\ UNCHANGED <<expanded, mounted, isVisible, useWebRtc, renderVars, retryTimer, retries>>

\* The connecting timer fires: a WebRTC connection is closed and the ref cleared.
TimesOut(s) ==
    /\ Rendered
    /\ stream[s].timed
    /\ \/ /\ stream[s].rtc
          /\ ScheduleReload(stream[s].from, Untimed(Closed(stream, {s}), s), NoSlot, NoSlot)
       \/ /\ ~stream[s].rtc
          /\ ScheduleReload(stream[s].from, Untimed(stream, s), pcRef, NoSlot)
    /\ UNCHANGED <<expanded, mounted, isVisible, useWebRtc, renderVars, retryTimer, retries>>

-----------------------------------------------------------------------------
(***************************************************************************)
(* Timers and the error card.                                              *)
(***************************************************************************)

\* The reload's guard; the status of a camera on the wall is online.
ReloadGoesOn == isVisible

ReloadFires ==
    /\ Rendered
    /\ reloadTimer # {}
    /\ reloadTimer' = {}
    /\ \/ ReloadGoesOn /\ \E from \in reloadTimer : Load([webRtc |-> from.webRtc, from |-> from])
       \/ ~ReloadGoesOn /\ UNCHANGED <<streamVars, isLoading, hasError>>
    /\ UNCHANGED <<expanded, mounted, isVisible, isLoaded, useWebRtc, renderVars, attempt, retryTimer, retries>>

DelayFires ==
    /\ Rendered
    /\ delayTimer' = {}
    /\ \E call \in delayTimer : Load(call)
    /\ UNCHANGED <<expanded, mounted, isVisible, isLoaded, useWebRtc, memo, seen, attempt, reloadTimer,
                   retryTimer, retries>>

RetryFires ==
    /\ Rendered
    /\ retryTimer' = {}
    /\ \E call \in retryTimer : Load(call)
    /\ UNCHANGED <<expanded, mounted, isVisible, isLoaded, useWebRtc, renderVars, attempt, reloadTimer, retries>>

\* The error card is on the screen; it comes back seconds after a retry at the
\* earliest.
ErrorCard == mounted /\ isVisible /\ hasError /\ Rendered /\ retryTimer = {} /\ retries < MaxRetries

RetryLoad ==
    /\ ErrorCard
    /\ retries' = retries + 1
    /\ reloadTimer' = {}
    /\ attempt' = 0
    /\ hasError' = FALSE /\ isLoading' = FALSE /\ isLoaded' = FALSE
    /\ retryTimer' = {[webRtc |-> useWebRtc, from |-> memo]}
    /\ UNCHANGED <<expanded, mounted, isVisible, renderVars, streamVars>>

Retry == RetryLoad /\ UNCHANGED useWebRtc

TryHlsInstead == useWebRtc /\ RetryLoad /\ useWebRtc' = FALSE

-----------------------------------------------------------------------------

StreamStep(s) == OfferAnswered(s) \/ OfferFails(s) \/ Plays(s) \/ Fails(s) \/ TimesOut(s)

Next ==
    \/ Render \/ Scroll \/ Unmount
    \/ \E s \in Slots : StreamStep(s)
    \/ ReloadFires \/ DelayFires \/ RetryFires
    \/ Retry \/ TryHlsInstead

\* Renders and timers are always served, and loadWebRtc's awaits end.
Fairness ==
    /\ WF_vars(Render) /\ WF_vars(ReloadFires) /\ WF_vars(DelayFires) /\ WF_vars(RetryFires)
    /\ \A s \in Slots : WF_vars(OfferAnswered(s) \/ OfferFails(s)) /\ WF_vars(TimesOut(s))

Spec == Init /\ [][Next]_vars /\ Fairness

-----------------------------------------------------------------------------

LiveStreams == {s \in Slots : stream[s].phase \in Live}

\* There is a stream, one whose end is to be handled, or a load to come that will
\* not return at once, that of the next render's effect included.
Working ==
    \/ \E s \in Slots : stream[s].phase # "closed"
    \/ seen # Deps /\ Wanted /\ ~isLoading
    \/ \E from \in reloadTimer : ~from.blocked
    \/ \E call \in delayTimer \cup retryTimer : ~call.from.blocked

-----------------------------------------------------------------------------

\* A pending reload can load, and so can that of a stream that is yet to fail: its
\* loaders are of a render before the stream, not of one that saw the tile
\* loading, which would return at once.
ReloadCanLoad ==
    /\ \A from \in reloadTimer : ~from.blocked
    /\ \A s \in Slots : ~stream[s].from.blocked

\* Unless the user retried by hand, a tile has one stream at most, which its ref
\* names, whatever renders, timers, errors and scrolling interleave.
OneStream ==
    retries = 0 => /\ Cardinality(LiveStreams) <= 1
                   /\ LiveStreams \subseteq {hlsRef, pcRef}

\* What the tile says is so: a picture belongs to a playing stream.
LoadedIsPlaying ==
    isLoaded /\ retries = 0 => \E s \in {hlsRef, pcRef} \cap Slots : stream[s].phase = "playing"

\* While the user has not retried by hand: what is loaded, loading, pending and
\* delayed excludes each other, so that no load finds a stream.
OneAtATime ==
    /\ retryTimer = {}
    /\ hlsRef = NoSlot \/ pcRef = NoSlot
    /\ \A s \in Slots :
          /\ stream[s].phase \notin {"aborted", "failed"}
          /\ stream[s].phase # "closed" <=> s \in {hlsRef, pcRef}
          /\ stream[s].phase # "closed" =>
                 /\ reloadTimer = {}
                 /\ isLoading \/ isLoaded
                 /\ \A call \in delayTimer : call.from.blocked
          /\ stream[s].timed => stream[s].phase = "connecting" /\ connectingRef = s
    /\ isLoaded => \E s \in {hlsRef, pcRef} \cap Slots : stream[s].phase = "playing"
    /\ isLoaded \/ isLoading => seen.webRtc = useWebRtc
    /\ reloadTimer # {} => /\ isLoading \/ hasError
                           /\ \A call \in delayTimer : call.from.blocked

\* The inductive invariant of a tile.
IInv ==
    /\ TypeOK
    /\ ReloadCanLoad
    /\ memo.blocked = (seen.loaded \/ seen.loading)
    /\ retries = 0 => OneAtATime

\* Whichever callback comes next, a tile in view that has a stream, or a load to
\* come, does not end up without both: it is only when it is scrolled away during
\* the pause before a reload that nobody loads it any more.
StaysTended == [][isVisible /\ Working => Working' \/ ~isVisible' \/ ~mounted']_vars

\* A tile out of sight comes to release its stream.
HiddenReleases == []<>(isVisible \/ ~mounted \/ retries > 0 \/ LiveStreams = {})

\* LazyVideoPlayer.tsx:326: "Keeps retrying forever while the tile is visible and
\* the camera is online".
KeepsRetrying == isVisible ~> (Working \/ ~isVisible \/ ~mounted)

=============================================================================
