----------------------------- MODULE GoesIngest -----------------------------
(***************************************************************************)
(* The GOES imager: a loop that stages the newest frame of each ABI        *)
(* channel (util/runtime/background.py, common/ingest/mrms/downloader.py)  *)
(* beside a loop that pins one frame per channel and renders the set.      *)
(*                                                                         *)
(* Time is counted in frames: a frame is five minutes of one channel, and  *)
(* the present is the newest frame anyone has published.                   *)
(***************************************************************************)
EXTENDS Integers, Sequences, FiniteSets, SequencesExt, FiniteSetsExt

CONSTANTS
    Channels,      \* the configured ABI channels
    MaxFrame,      \* frames the satellite publishes (bounds the model)
    MaxOffset,     \* frames a staged file may lie in the past
    FilesPerSpec,  \* files the cleanup before a pass keeps of a channel
    MaxKeys,       \* rendered sets the render loop remembers
    PauseIngest,   \* pause_ingest_during_render
    MaxAbiFaults   \* what fails (bounds the model)

ASSUME GoesAssumption ==
    /\ MaxFrame \in Nat /\ FilesPerSpec \in Nat \ {0} /\ MaxKeys \in Nat \ {0}
    /\ PauseIngest \in BOOLEAN

VARIABLES
    published,  \* published[c]: the frames of channel c on S3
    staged,     \* staged[c]: its directory, oldest first: [frame, part]
    pass,       \* the ingest pass: [pc, mode, listed, todo, part]
    drawing,    \* the render loop: [pc, pinned, left]
    keys,       \* the sets it remembers as rendered
    shown,      \* shown[c]: the frame of the channel's layer
    abiFaults

abiVars == <<published, staged, pass, drawing, keys, shown, abiFaults>>

NoFrame == 0
NoPass == [pc |-> "idle", mode |-> "async", listed |-> <<>>, todo |-> {}, part |-> {}]
NoDrawing == [pc |-> "idle", pinned |-> <<>>, left |-> {}]

AbiInit ==
    /\ published = [c \in Channels |-> {}]
    /\ staged = [c \in Channels |-> <<>>]
    /\ pass = NoPass
    /\ drawing = NoDrawing
    /\ keys = {}
    /\ shown = [c \in Channels |-> NoFrame]
    /\ abiFaults = {}

\* Every kind of fault at most once, MaxAbiFaults of them.
AbiFault(kind) ==
    /\ kind \notin abiFaults /\ Cardinality(abiFaults) < MaxAbiFaults
    /\ abiFaults' = abiFaults \cup {kind}

Present == Max({NoFrame} \cup UNION {published[c] : c \in Channels})

\* The satellite publishes channel by channel.
PublishFrame(c) ==
    \E f \in 1..MaxFrame :
        /\ f > Max({NoFrame} \cup published[c]) /\ f <= Present + 1
        /\ published' = [published EXCEPT ![c] = @ \cup {f}]
        /\ UNCHANGED <<staged, pass, drawing, keys, shown, abiFaults>>

(***************************************************************************)
(* The ingest pass of goes_loop.                                           *)
(***************************************************************************)
\* The cleanup counts whatever lies in the directory.
CleanedDir(files) == SubSeq(files, Len(files) - Min({Len(files), FilesPerSpec}) + 1, Len(files))

StartPass ==
    /\ pass.pc = "idle"
    /\ PauseIngest => drawing.pc = "idle"
    /\ staged' = [c \in Channels |-> CleanedDir(staged[c])]
    /\ pass' = [NoPass EXCEPT !.pc = "list"]
    /\ UNCHANGED <<published, drawing, keys, shown, abiFaults>>

\* One listing serves all channels of the product.
ListShared ==
    /\ pass.pc = "list"
    /\ pass' = [pass EXCEPT !.pc = "fetch", !.listed = published, !.todo = Channels]
    /\ UNCHANGED <<published, staged, drawing, keys, shown, abiFaults>>

\* The session or the listing raises: the loop tries once more, synchronously.
ListingRaises ==
    /\ pass.pc = "list"
    /\ AbiFault(pass.mode)
    /\ pass' = IF pass.mode = "async" THEN [pass EXCEPT !.mode = "sync"] ELSE NoPass
    /\ staged' = [c \in Channels |-> CleanedDir(staged[c])]
    /\ UNCHANGED <<published, drawing, keys, shown>>

WantedFrame(c) == Max({NoFrame} \cup pass.listed[c])
HasFrame(c, f) == \E i \in DOMAIN staged[c] : staged[c][i] = [frame |-> f, part |-> FALSE]
WithoutPart(c) == SelectSeq(staged[c], LAMBDA x : x.frame # WantedFrame(c) \/ ~x.part)

\* Nothing listed for the channel, or staged already.
NothingToFetch(c) ==
    /\ pass.pc = "fetch" /\ c \in pass.todo \ pass.part
    /\ WantedFrame(c) = NoFrame \/ HasFrame(c, WantedFrame(c))
    /\ pass' = [pass EXCEPT !.todo = @ \ {c}]
    /\ UNCHANGED <<published, staged, drawing, keys, shown, abiFaults>>

BeginFetch(c) ==
    /\ pass.pc = "fetch" /\ c \in pass.todo \ pass.part
    /\ WantedFrame(c) # NoFrame /\ ~HasFrame(c, WantedFrame(c))
    /\ staged' = [staged EXCEPT ![c] = Append(WithoutPart(c), [frame |-> WantedFrame(c), part |-> TRUE])]
    /\ pass' = [pass EXCEPT !.part = @ \cup {c}]
    /\ UNCHANGED <<published, drawing, keys, shown, abiFaults>>

EndFetch(c) ==
    /\ pass.pc = "fetch" /\ c \in pass.part
    /\ staged' = [staged EXCEPT ![c] = Append(WithoutPart(c), [frame |-> WantedFrame(c), part |-> FALSE])]
    /\ pass' = [pass EXCEPT !.todo = @ \ {c}, !.part = @ \ {c}]
    /\ UNCHANGED <<published, drawing, keys, shown, abiFaults>>

\* A failed channel is left out of the pass; it does not fail the others.
FetchFails(c) ==
    /\ pass.pc = "fetch" /\ c \in pass.part
    /\ AbiFault("fetch")
    /\ staged' = [staged EXCEPT ![c] = WithoutPart(c)]
    /\ pass' = [pass EXCEPT !.todo = @ \ {c}, !.part = @ \ {c}]
    /\ UNCHANGED <<published, drawing, keys, shown>>

EndPass ==
    /\ pass.pc = "fetch" /\ pass.todo = {}
    /\ pass' = NoPass
    /\ UNCHANGED <<published, staged, drawing, keys, shown, abiFaults>>

\* The accessory process is killed; its hidden files stay.
IngestDies ==
    /\ pass.pc # "idle"
    /\ AbiFault("ingest")
    /\ pass' = NoPass
    /\ UNCHANGED <<published, staged, drawing, keys, shown>>

(***************************************************************************)
(* The render loop.                                                        *)
(***************************************************************************)
\* latest_goes_file_near_target: hidden files are not looked at.
NearestLocal(c) ==
    Max({NoFrame} \cup {staged[c][i].frame : i \in {j \in DOMAIN staged[c] :
            ~staged[c][j].part /\ Present - staged[c][j].frame <= MaxOffset}})

\* Fault variant: the set goes by the channel that is furthest ahead.
RenderKeyNewest(set) == [c \in Channels |-> Max({set[d] : d \in Channels})]

\* The analysis time of every channel, not the time of the poll.
RenderKey(set) == set

\* All channels or none; mixed frames are a set of their own.
PinSet ==
    /\ drawing.pc = "idle"
    /\ LET set == [c \in Channels |-> NearestLocal(c)]
       IN  /\ \A c \in Channels : set[c] # NoFrame
           /\ RenderKey(set) \notin keys
           /\ drawing' = [pc |-> "render", pinned |-> set, left |-> Channels]
    /\ UNCHANGED <<published, staged, pass, keys, shown, abiFaults>>

\* A layer whose pinned file was cleaned away keeps its old frame.
DrawLayer(c) ==
    /\ drawing.pc = "render" /\ c \in drawing.left
    /\ shown' = [shown EXCEPT ![c] = IF HasFrame(c, drawing.pinned[c])
                                     THEN drawing.pinned[c] ELSE @]
    /\ drawing' = [drawing EXCEPT !.left = @ \ {c}]
    /\ UNCHANGED <<published, staged, pass, keys, abiFaults>>

\* ewmrs_goes_worker logs what it catches; the set counts as rendered.
RenderRaises ==
    /\ drawing.pc = "render" /\ drawing.left # {}
    /\ AbiFault("render")
    /\ drawing' = [drawing EXCEPT !.left = {}]
    /\ UNCHANGED <<published, staged, pass, keys, shown>>

\* Sets of frames in the order of the sorted keys: by the first channel that differs.
Before(k, l) ==
    LET order == SetToSeq(Channels)
    IN  \E i \in DOMAIN order : /\ k[order[i]] < l[order[i]]
                                /\ \A j \in 1..(i - 1) : k[order[j]] = l[order[j]]
KeptKeys(ks) ==
    IF Cardinality(ks) <= MaxKeys THEN ks
    ELSE {k \in ks : Cardinality({l \in ks : Before(k, l)}) < MaxKeys \div 2}

EndRender ==
    /\ drawing.pc = "render" /\ drawing.left = {}
    /\ keys' = KeptKeys(keys \cup {RenderKey(drawing.pinned)})
    /\ drawing' = NoDrawing
    /\ UNCHANGED <<published, staged, pass, shown, abiFaults>>

\* The flag is lowered by the exit handler or by the supervisor.
RendererDies ==
    /\ drawing.pc # "idle" \/ keys # {}
    /\ AbiFault("renderer")
    /\ drawing' = NoDrawing
    /\ keys' = {}
    /\ UNCHANGED <<published, staged, pass, shown>>

PassStep ==
    \/ StartPass \/ ListShared \/ EndPass
    \/ \E c \in Channels : NothingToFetch(c) \/ BeginFetch(c) \/ EndFetch(c)
DrawStep == PinSet \/ EndRender \/ \E c \in Channels : DrawLayer(c)

AbiNext ==
    \/ PassStep \/ DrawStep
    \/ ListingRaises \/ IngestDies \/ RenderRaises \/ RendererDies
    \/ \E c \in Channels : PublishFrame(c) \/ FetchFails(c)

\* Both loops poll for ever.
AbiFairness == WF_abiVars(PassStep) /\ WF_abiVars(DrawStep)
AbiSpec == AbiInit /\ [][AbiNext]_abiVars /\ AbiFairness

\* A frame that every channel has reached is shown by every layer in the end, or a
\* newer one is, in whatever order the channels are published and fetched, whatever
\* the cleanup takes from under a render, and whoever dies: unless the render itself
\* raised, which counts as rendered.
FreshestIsShown ==
    \A f \in 1..MaxFrame :
        (\A c \in Channels : \E g \in published[c] : g >= f)
            ~> (\A c \in Channels : shown[c] >= f) \/ "render" \in abiFaults

=============================================================================
