---------------------------- MODULE CameraSession ----------------------------
(***************************************************************************)
(* The camera of the capture page: a stream is asked for, shown, captured  *)
(* from and released while the browser answers late and the page disables  *)
(* or unmounts the camera at any moment.  A generation number tells the    *)
(* answers that still count from those that must only clean up.            *)
(***************************************************************************)
EXTENDS Naturals, FiniteSets

CONSTANTS MaxStarts,       \* bound: requests for a stream
          MaxShots,        \* bound: captures begun
          MaxToggles       \* bound: times the page disables the camera

ASSUME CameraAssumption == {MaxStarts, MaxShots, MaxToggles} \subseteq Nat

VARIABLES shown,        \* mountedRef
          disabled,     \* the page's disabled property
          generation,   \* cameraGenerationRef
          listing,      \* deviceEnumerationGenerationRef
          stream,       \* per request: "none", "asked", "live", "stopped"
          current,      \* streamRef
          preview,      \* the stream the video element shows
          starts,       \* startCamera calls in flight
          shots,        \* capture calls in flight
          lists,        \* enumerations in flight
          devices,      \* the enumeration the device list comes from
          flags,        \* startingRef, capturingRef and the active state
          toggles, taken

kvars == <<shown, disabled, generation, listing, stream, current, preview,
           starts, shots, lists, devices, flags, toggles, taken>>

NoStream == 0
Streams == 1..MaxStarts
Down == [starting |-> FALSE, capturing |-> FALSE, active |-> FALSE]

CameraInit ==
    /\ shown = TRUE /\ disabled = FALSE
    /\ generation = 0 /\ listing = 1
    /\ stream = [s \in Streams |-> "none"]
    /\ current = NoStream /\ preview = NoStream
    /\ starts = {} /\ shots = {}
    /\ lists = {[listing |-> 1, camera |-> NoStream]} /\ devices = 0
    /\ flags = Down
    /\ toggles = 0 /\ taken = 0

IsCurrentStart(g) == shown /\ generation = g
Stopped(ss) == [s \in Streams |-> IF s \in ss THEN "stopped" ELSE stream[s]]

(* releaseCurrentStream: the owned stream, and the previewed one if another  *)
ReleaseCurrent ==
    /\ stream' = Stopped({current, preview} \ {NoStream})
    /\ current' = NoStream /\ preview' = NoStream

(* releaseStream: one stream, whoever shows it now                           *)
Release(s) ==
    /\ stream' = Stopped({s})
    /\ current' = IF current = s THEN NoStream ELSE current
    /\ preview' = IF preview = s THEN NoStream ELSE preview

(* refreshDevices: only the newest enumeration may change the list           *)
RefreshDevices(g) ==
    /\ listing' = listing + 1
    /\ lists' = lists \cup {[listing |-> listing + 1, camera |-> g]}

Stopping ==
    /\ generation' = generation + 1
    /\ flags' = Down
    /\ ReleaseCurrent

Stop ==
    /\ shown /\ flags.active /\ ~flags.capturing
    /\ Stopping
    /\ UNCHANGED <<shown, disabled, listing, starts, shots, lists, devices, toggles, taken>>

(* The layout effect stops the camera as the page disables it                *)
Disable ==
    /\ shown /\ ~disabled /\ toggles < MaxToggles
    /\ disabled' = TRUE /\ toggles' = toggles + 1
    /\ Stopping
    /\ UNCHANGED <<shown, listing, starts, shots, lists, devices, taken>>

Enable ==
    /\ shown /\ disabled
    /\ disabled' = FALSE
    /\ UNCHANGED <<shown, generation, listing, stream, current, preview, starts,
                   shots, lists, devices, flags, toggles, taken>>

Leave ==
    /\ shown
    /\ shown' = FALSE
    /\ listing' = listing + 1
    /\ Stopping
    /\ UNCHANGED <<disabled, starts, shots, lists, devices, toggles, taken>>

(* startCamera: release what is shown, then ask for a stream                 *)
StartCamera ==
    /\ shown /\ ~disabled /\ ~flags.active /\ ~flags.starting
    /\ \E s \in Streams :
         /\ stream[s] = "none" /\ \A t \in Streams : t < s => stream[t] # "none"
         /\ generation' = generation + 1
         /\ flags' = [flags EXCEPT !.starting = TRUE]
         /\ starts' = starts \cup {[stream |-> s, generation |-> generation + 1,
                                    stage |-> "asking"]}
         /\ stream' = [Stopped({current, preview} \ {NoStream}) EXCEPT ![s] = "asked"]
         /\ current' = NoStream /\ preview' = NoStream
    /\ UNCHANGED <<shown, disabled, listing, shots, lists, devices, toggles, taken>>

(* The finally clause: only the current generation owns the flag             *)
EndStart(a) ==
    /\ starts' = starts \ {a}
    /\ flags' = IF IsCurrentStart(a.generation) THEN [flags EXCEPT !.starting = FALSE] ELSE flags

(* getUserMedia answers with a stream: shown, or released when it is late    *)
StreamGranted(a) ==
    /\ a \in starts /\ a.stage = "asking"
    /\ IF IsCurrentStart(a.generation)
       THEN /\ stream' = [stream EXCEPT ![a.stream] = "live"]
            /\ current' = a.stream /\ preview' = a.stream
            /\ starts' = (starts \ {a}) \cup {[a EXCEPT !.stage = "playing"]}
            /\ RefreshDevices(a.generation)
            /\ UNCHANGED flags
       ELSE /\ Release(a.stream) /\ EndStart(a) /\ UNCHANGED <<listing, lists>>
    /\ UNCHANGED <<shown, disabled, generation, shots, devices, toggles, taken>>

StreamDenied(a) ==
    /\ a \in starts /\ a.stage = "asking"
    /\ IF IsCurrentStart(a.generation)
       THEN /\ stream' = [Stopped({current, preview} \ {NoStream}) EXCEPT ![a.stream] = "stopped"]
            /\ current' = NoStream /\ preview' = NoStream
       ELSE stream' = [stream EXCEPT ![a.stream] = "stopped"] /\ UNCHANGED <<current, preview>>
    /\ EndStart(a)
    /\ UNCHANGED <<shown, disabled, generation, listing, shots, lists, devices, toggles, taken>>

Played(a) ==
    /\ a \in starts /\ a.stage = "playing"
    /\ IF IsCurrentStart(a.generation)
       THEN /\ starts' = starts \ {a}
            /\ flags' = [flags EXCEPT !.starting = FALSE, !.active = TRUE]
            /\ UNCHANGED <<stream, current, preview>>
       ELSE Release(a.stream) /\ EndStart(a)
    /\ UNCHANGED <<shown, disabled, generation, listing, shots, lists, devices, toggles, taken>>

PlayFailed(a) ==
    /\ a \in starts /\ a.stage = "playing"
    /\ Release(a.stream)
    /\ EndStart(a)
    /\ UNCHANGED <<shown, disabled, generation, listing, shots, lists, devices, toggles, taken>>

(* capture: the frame is drawn now and encoded later                         *)
Capture ==
    /\ shown /\ ~disabled /\ flags.active /\ ~flags.capturing
    /\ current # NoStream
    /\ Cardinality(shots) < MaxShots
    /\ flags' = [flags EXCEPT !.capturing = TRUE]
    /\ shots' = shots \cup {[generation |-> generation, stream |-> current]}
    /\ UNCHANGED <<shown, disabled, generation, listing, stream, current, preview,
                   starts, lists, devices, toggles, taken>>

(* toBlob answers: a picture of a stream that is gone is dropped.  The image *)
(* is handed to the page, or refused by validateImageFile.                   *)
Encoded(c, valid) ==
    /\ c \in shots
    /\ shots' = shots \ {c}
    /\ taken' = IF IsCurrentStart(c.generation) /\ current = c.stream /\ valid
                THEN c.stream ELSE taken
    /\ flags' = IF IsCurrentStart(c.generation) THEN [flags EXCEPT !.capturing = FALSE] ELSE flags
    /\ UNCHANGED <<shown, disabled, generation, listing, stream, current, preview,
                   starts, lists, devices, toggles>>

Listed(e) ==
    /\ e \in lists
    /\ lists' = lists \ {e}
    /\ devices' = IF /\ shown /\ listing = e.listing
                     /\ e.camera = NoStream \/ IsCurrentStart(e.camera)
                  THEN e.listing ELSE devices
    /\ UNCHANGED <<shown, disabled, generation, listing, stream, current, preview,
                   starts, shots, flags, toggles, taken>>

CameraNext ==
    \/ Stop \/ Disable \/ Enable \/ Leave \/ StartCamera \/ Capture
    \/ \E a \in starts : StreamGranted(a) \/ StreamDenied(a) \/ Played(a) \/ PlayFailed(a)
    \/ \E c \in shots, valid \in BOOLEAN : Encoded(c, valid)
    \/ \E e \in lists : Listed(e)

CameraSpec == CameraInit /\ [][CameraNext]_kvars
-----------------------------------------------------------------------------
CameraTypeOK ==
    /\ {shown, disabled} \subseteq BOOLEAN /\ generation \in Nat /\ listing \in Nat
    /\ stream \in [Streams -> {"none", "asked", "live", "stopped"}]
    /\ {current, preview} \subseteq Streams \cup {NoStream}
    /\ flags \in [starting : BOOLEAN, capturing : BOOLEAN, active : BOOLEAN]

(* The camera is never left on: a live stream is the one the page owns, and  *)
(* a page that has disabled or left the camera owns none.                    *)
CameraIsReleased ==
    \A s \in Streams : stream[s] = "live" => s = current /\ shown /\ ~disabled
=============================================================================
