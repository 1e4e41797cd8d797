----------------------------- MODULE MrmsIngest -----------------------------
(***************************************************************************)
(* How one MRMS product of a scan is staged: looked up on S3, fetched,     *)
(* decompressed, or else taken from the HTTPS mirror                       *)
(* (src/src/common/ingest/mrms), tried again synchronously when the batch  *)
(* fails, pinned with its predecessor in the cycle's manifest and          *)
(* validated (common/pipeline/coordinator.py, common/ingest/manifest.py).  *)
(* Cleanup of the product's directory runs beside it.                      *)
(*                                                                         *)
(* Time is counted in half minutes, so that a scan is a multiple of 4.     *)
(***************************************************************************)
EXTENDS Integers, Sequences, FiniteSets, SequencesExt, Selection

CONSTANTS
    MrmsStamps,  \* time stamps of the remote files
    MrmsScans,   \* scans the primary asks for
    HourStart,   \* where a new hour begins
    MatchWindow, Early, Late,  \* limits of the mirror's match, of the alignment
    MaxFiles,    \* files a cleanup keeps
    MaxAge,      \* age beyond which it removes one
    MaxTroubles  \* transfers, listings or processes that fail (bounds the model)

\* filesystem.yaml keeps 10 files and an hour.  Its schema admits 0 as well: then
\* a cleanup takes the very file that is being fetched.
ASSUME MrmsAssumption ==
    /\ MrmsStamps \subseteq Nat /\ MrmsScans \subseteq Nat /\ \A scan \in MrmsScans : scan % 4 = 0
    /\ MaxFiles \in Nat \ {0} /\ MaxAge \in Nat \ {0} /\ MaxTroubles \in Nat

VARIABLES
    mrmsRemote, \* mrmsRemote[via]: the stamps published on "s3" and on "https"
    dir,        \* the directory, oldest modification first
    fetch,      \* the attempt: [pc, scan, mode, via, want, offered]
    victims,    \* what the cleanup under way has yet to remove
    ready,      \* the manifest of the last attempt that was ready
    troubles    \* history: what failed

mrmsVars == <<mrmsRemote, dir, fetch, victims, ready, troubles>>

NoStamp == -1
NoRecord == [scan |-> NoStamp, current |-> NoStamp, previous |-> NoStamp]
NotFetching == [pc |-> "idle", scan |-> NoStamp, mode |-> "async", via |-> "s3",
                want |-> NoStamp, offered |-> FALSE]

MrmsInit ==
    /\ mrmsRemote = [via \in {"s3", "https"} |-> {}]
    /\ dir = <<>>
    /\ fetch = NotFetching
    /\ victims = {}
    /\ ready = NoRecord
    /\ troubles = <<>>

Trouble(kind) == Len(troubles) < MaxTroubles /\ troubles' = Append(troubles, kind)

(***************************************************************************)
(* Which remote file stands for a scan.                                    *)
(***************************************************************************)
\* round_to_nearest_even_minute.
Rounded(ts) == 4 * ((ts + 1) \div 4)
Minute(ts) == ts \div 2
SameHour(ts, scan) == ts >= HourStart <=> scan >= HourStart
Distance(a, b) == IF a < b THEN b - a ELSE a - b
Latest(stamps) == CHOOSE t \in stamps : \A u \in stamps : u <= t

\* The prefix of the listing ends with the hour of the scan.
ListedOnS3(scan) == {t \in mrmsRemote["s3"] : SameHour(t, scan) /\ Minute(t) <= Minute(scan)}

SelectTarget(scan, listed) ==
    LET matching == {t \in listed : Rounded(t) = Rounded(scan)}
    IN  IF matching # {} THEN Latest(matching) ELSE Latest(listed)

\* The mirror's file of that very minute, or the nearest one in the window.
MatchingOnHttps(scan) ==
    LET sameMinute == {t \in mrmsRemote["https"] : Minute(t) = Minute(scan)}
        near == {t \in mrmsRemote["https"] : Distance(t, scan) < MatchWindow}
        nearest == {t \in near : \A u \in near : Distance(t, scan) <= Distance(u, scan)}
    IN  IF sameMinute # {} THEN sameMinute ELSE nearest

(***************************************************************************)
(* The directory.                                                          *)
(***************************************************************************)
File(stamp, kind, sound) == [stamp |-> stamp, kind |-> kind, sound |-> sound]
InDir(stamp, kind) == \E f \in ToSet(dir) : f.stamp = stamp /\ f.kind = kind
WithoutFile(d, stamp, kind) ==
    Selected(d, {i \in DOMAIN d : d[i].stamp # stamp \/ d[i].kind # kind})

(***************************************************************************)
(* An attempt.                                                             *)
(***************************************************************************)
\* The scan was advertised by the update checker, or is asked for again.
StartAttempt(scan) ==
    /\ fetch.pc = "idle"
    /\ scan >= ready.scan /\ scan >= fetch.scan
    /\ fetch' = [NotFetching EXCEPT !.pc = "lookup", !.scan = scan,
                   !.offered = \E t \in mrmsRemote["s3"] :
                                  Rounded(t) = scan /\ SameHour(t, scan) /\ Minute(t) <= Minute(scan)]
    /\ UNCHANGED <<mrmsRemote, dir, victims, ready, troubles>>

\* async_download_matching: a file that is there already is not fetched again.
FetchFrom(via, want) ==
    fetch' = [fetch EXCEPT !.via = via, !.want = want,
                !.pc = IF via = "s3" /\ InDir(want, "plain") THEN "staged"
                       ELSE IF InDir(want, "zip") THEN "decompress" ELSE "request"]

LookUpOnS3 ==
    /\ fetch.pc = "lookup"
    /\ IF ListedOnS3(fetch.scan) = {}
       THEN fetch' = [fetch EXCEPT !.pc = "mirror"]
       ELSE FetchFrom("s3", SelectTarget(fetch.scan, ListedOnS3(fetch.scan)))
    /\ UNCHANGED <<mrmsRemote, dir, victims, ready, troubles>>

LookupFails ==
    /\ fetch.pc = "lookup"
    /\ Trouble("s3")
    /\ fetch' = [fetch EXCEPT !.pc = "mirror"]
    /\ UNCHANGED <<mrmsRemote, dir, victims, ready>>

LookUpOnHttps ==
    /\ fetch.pc = "mirror"
    /\ IF MatchingOnHttps(fetch.scan) = {}
       THEN fetch' = [fetch EXCEPT !.pc = "failed"]
       ELSE \E want \in MatchingOnHttps(fetch.scan) : FetchFrom("https", want)
    /\ UNCHANGED <<mrmsRemote, dir, victims, ready, troubles>>

\* The body is written under a hidden name.
BeginTransfer ==
    /\ fetch.pc = "request"
    /\ dir' = Append(WithoutFile(dir, fetch.want, "part"), File(fetch.want, "part", FALSE))
    /\ fetch' = [fetch EXCEPT !.pc = "receive"]
    /\ UNCHANGED <<mrmsRemote, victims, ready, troubles>>

\* Fault variant: the archive is written under its own name.
EndTransferAnyway ==
    /\ fetch.pc = "receive"
    /\ dir' = Append(WithoutFile(dir, fetch.want, "part"), File(fetch.want, "plain", FALSE))
    /\ fetch' = [fetch EXCEPT !.pc = "staged"]
    /\ UNCHANGED <<mrmsRemote, victims, ready, troubles>>

\* Its length was as announced.  The archive may be damaged all the same.
EndTransfer ==
    /\ fetch.pc = "receive"
    /\ InDir(fetch.want, "part")
    /\ \E sound \in BOOLEAN :
         /\ IF sound THEN UNCHANGED troubles ELSE Trouble("archive")
         /\ dir' = Append(WithoutFile(dir, fetch.want, "part"), File(fetch.want, "zip", sound))
    /\ fetch' = [fetch EXCEPT !.pc = "decompress"]
    /\ UNCHANGED <<mrmsRemote, victims, ready>>

\* Once S3 has failed the mirror is asked, and then nobody.
GiveUp == fetch' = [fetch EXCEPT !.pc = IF fetch.via = "s3" THEN "mirror" ELSE "failed"]

TransferFails ==
    /\ fetch.pc \in {"request", "receive"}
    /\ Trouble(fetch.via)
    /\ dir' = WithoutFile(dir, fetch.want, "part")
    /\ GiveUp
    /\ UNCHANGED <<mrmsRemote, victims, ready>>

\* A cleanup took the hidden file: it cannot be renamed.
TransferRemoved ==
    /\ fetch.pc = "receive"
    /\ ~InDir(fetch.want, "part")
    /\ GiveUp
    /\ UNCHANGED <<mrmsRemote, dir, victims, ready, troubles>>

\* async_decompress_file: to a hidden name and to the end of the archive, so that
\* a damaged one is found out; then the archive goes.
Decompress ==
    /\ fetch.pc = "decompress"
    /\ LET zips == {f \in ToSet(dir) : f.stamp = fetch.want /\ f.kind = "zip"}
           rest == WithoutFile(dir, fetch.want, "zip")
       IN  IF InDir(fetch.want, "plain") /\ zips # {}
           THEN /\ dir' = rest
                /\ fetch' = [fetch EXCEPT !.pc = "staged"]
           ELSE IF \E f \in zips : f.sound
           THEN /\ dir' = Append(rest, File(fetch.want, "plain", TRUE))
                /\ fetch' = [fetch EXCEPT !.pc = "staged"]
           ELSE UNCHANGED dir /\ GiveUp
    /\ UNCHANGED <<mrmsRemote, victims, ready, troubles>>

\* _safe_ingest: a batch that lacks a product is asked for again, synchronously;
\* a second failure leaves the product out.
FallBackToSync ==
    /\ fetch.pc = "failed"
    /\ fetch' = IF fetch.mode = "async"
                THEN [fetch EXCEPT !.pc = "lookup", !.mode = "sync", !.via = "s3", !.want = NoStamp]
                ELSE [fetch EXCEPT !.pc = "idle"]
    /\ UNCHANGED <<mrmsRemote, dir, victims, ready, troubles>>

(***************************************************************************)
(* The manifest.                                                           *)
(***************************************************************************)
\* _previous_detection_records: the newest older file, whatever its kind.
PreviousOf(stamp) ==
    LET older == {f.stamp : f \in {g \in ToSet(dir) : g.stamp < stamp}}
    IN  IF older = {} THEN NoStamp ELSE Latest(older)

\* validate_alignment: the tolerance is directional.
Aligned(stamp, scan) == stamp - scan <= Early /\ scan - stamp <= Late

\* The batch has succeeded: every callback of the cycle sees this selection.
ValidateManifest ==
    /\ fetch.pc = "staged"
    /\ IF InDir(fetch.want, "plain") /\ Aligned(fetch.want, fetch.scan)
       THEN ready' = [scan |-> fetch.scan, current |-> fetch.want,
                      previous |-> PreviousOf(fetch.want)]
       ELSE UNCHANGED ready
    /\ fetch' = [fetch EXCEPT !.pc = "idle"]
    /\ UNCHANGED <<mrmsRemote, dir, victims, troubles>>

(***************************************************************************)
(* The others.                                                             *)
(***************************************************************************)
PublishRemote(via, t) ==
    /\ mrmsRemote' = [mrmsRemote EXCEPT ![via] = @ \cup {t}]
    /\ mrmsRemote' # mrmsRemote
    /\ UNCHANGED <<dir, fetch, victims, ready, troubles>>

\* clean_old_files: what is too old, and what is left but the newest MaxFiles.
StartCleanup ==
    /\ fetch.pc # "idle"
    /\ victims = {}
    /\ LET old(i) == dir[i].stamp + MaxAge < fetch.scan
           newer(i) == {j \in DOMAIN dir : j > i /\ ~old(j)}
       IN  victims' = {dir[i] : i \in {j \in DOMAIN dir :
                                         old(j) \/ Cardinality(newer(j)) >= MaxFiles}}
    /\ victims' # {}
    /\ UNCHANGED <<mrmsRemote, dir, fetch, ready, troubles>>

RemoveVictim(f) ==
    /\ dir' = WithoutFile(dir, f.stamp, f.kind)
    /\ victims' = victims \ {f}
    /\ UNCHANGED <<mrmsRemote, fetch, ready, troubles>>

\* The primary dies; what was being written stays under its hidden name.
PrimaryDies ==
    /\ fetch.pc # "idle"
    /\ Trouble("crash")
    /\ fetch' = [NotFetching EXCEPT !.scan = fetch.scan]
    /\ victims' = {}
    /\ UNCHANGED <<mrmsRemote, dir, ready>>

AttemptStep ==
    \/ LookUpOnS3 \/ LookUpOnHttps \/ BeginTransfer \/ EndTransfer
    \/ TransferRemoved \/ Decompress \/ FallBackToSync \/ ValidateManifest

MrmsNext ==
    \/ AttemptStep \/ LookupFails \/ TransferFails \/ StartCleanup \/ PrimaryDies
    \/ \E scan \in MrmsScans : StartAttempt(scan)
    \/ \E via \in {"s3", "https"}, t \in MrmsStamps : PublishRemote(via, t)
    \/ \E f \in victims : RemoveVictim(f)

\* The primary retries a scan until it is ready, and an attempt goes on.
MrmsFairness ==
    /\ WF_mrmsVars(AttemptStep)
    /\ \A scan \in MrmsScans : WF_mrmsVars(StartAttempt(scan))

MrmsSpec == MrmsInit /\ [][MrmsNext]_mrmsVars /\ MrmsFairness

-----------------------------------------------------------------------------
Met(kinds) == \E i \in DOMAIN troubles : troubles[i] \in kinds
Whole(stamp) == \E f \in ToSet(dir) : f.stamp = stamp /\ f.kind = "plain" /\ f.sound
Offered(scan) == \E t \in ListedOnS3(scan) : Rounded(t) = scan

\* What a manifest pins is on disk then, whole, and close to its scan: the very
\* file of the scan if S3 listed it when the attempt began and did not fail.
\* The predecessor is whole too, but for what a crash or a damaged archive of an
\* earlier scan left behind under the same kind of name.
StagedIsTheScan ==
    [][ready' # ready =>
         /\ Whole(ready'.current)
         /\ Aligned(ready'.current, ready'.scan)
         /\ fetch.offered /\ ~Met({"s3", "crash", "archive"}) =>
              Rounded(ready'.current) = ready'.scan
         /\ ready'.previous # NoStamp /\ ~Met({"crash", "archive"}) =>
              Whole(ready'.previous)]_mrmsVars

\* A scan whose file S3 lists is staged in the end, whatever transfers, listings
\* and processes fail on the way and whatever the cleanup removes: nothing they
\* leave on disk is in the way of the next attempt.  A damaged archive is: it is
\* found on disk again and again.
ScanIsStaged ==
    \A scan \in MrmsScans :
        fetch.scan = scan /\ Offered(scan)
            ~> ready.scan >= scan \/ fetch.scan > scan \/ Met({"archive"})

\* A scan is staged in the end, and it is the scan (run_staged_ingest).
ScansAreStaged == StagedIsTheScan /\ ScanIsStaged

=============================================================================
