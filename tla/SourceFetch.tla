----------------------------- MODULE SourceFetch -----------------------------
(***************************************************************************)
(* How signpost learns one source from its vendor: processOne              *)
(* (refresh/refresher.go) probes for a token and a URL (source/), reads    *)
(* the control file with one or two range requests and the hash with a     *)
(* full download (fetch/fetch.go), and writes all of it to the state file. *)
(* Each request is a step of its own, the vendor may publish between any   *)
(* two, and a tick that fails or is killed leaves the state file alone.    *)
(*                                                                         *)
(* A vendor has releases, each with an asset at a URL; [rel, build] is the *)
(* content of an asset, and stands for its hash and its control file.      *)
(* A vendor that serves every version at one URL has a single release      *)
(* whose asset it replaces.  Contents do not come back: a replaced asset   *)
(* is a later build.  One response carries one content.                    *)
(***************************************************************************)
EXTENDS Naturals

CONSTANTS
    TokenIsContent, \* the token changes with the asset (ETag, Last-Modified),
                    \* not only with the release (release id, resolved URL)
    Digested,       \* releases for which the probe gives the SHA256 of the asset
    Replaceable,    \* the asset of a release may be replaced
    SizeOf,         \* the size of a build
    MaxRel,         \* bound on the releases
    MaxBuild,       \* bound on the builds of a release
    None

Content == [rel : Nat, build : Nat]

ASSUME SourceFetchAssumption ==
    /\ {TokenIsContent, Replaceable} \subseteq BOOLEAN
    /\ MaxRel \in Nat \ {0} /\ MaxBuild \in Nat
    /\ None \notin Content \cup [token : Content, digest : Content \cup {None}]

VARIABLES
    latest, \* the latest release
    asset,  \* asset[rel]: the build at its URL, 0 before the release
    disk,   \* the state file: [token, control, sha], or None
    pc,     \* "idle", "head", "tail", "hash" or "write"
    probe,  \* the probe of this tick: [token, digest], or None
    head,   \* the content the control file is read from, or None
    sum     \* the content that was hashed, or None

vendor == <<latest, asset>>
vars == <<vendor, disk, pc, probe, head, sum>>

\* What the URL of release r serves now.
At(r) == [rel |-> r, build |-> asset[r]]
Current == At(latest)

\* The token of the latest release.
Token == IF TokenIsContent THEN Current ELSE [rel |-> latest, build |-> 0]

Init ==
    /\ latest = 1
    /\ asset = [r \in 1 .. MaxRel |-> IF r = 1 THEN 1 ELSE 0]
    /\ disk = None /\ pc = "idle"
    /\ probe = None /\ head = None /\ sum = None

-----------------------------------------------------------------------------
(* The vendor.                                                             *)

Release ==
    /\ latest < MaxRel
    /\ latest' = latest + 1
    /\ asset' = [asset EXCEPT ![latest + 1] = 1]
    /\ UNCHANGED <<disk, pc, probe, head, sum>>

Replace ==
    /\ Replaceable
    /\ \E r \in 1 .. latest :
          /\ asset[r] < MaxBuild
          /\ asset' = [asset EXCEPT ![r] = @ + 1]
    /\ UNCHANGED <<latest, disk, pc, probe, head, sum>>

-----------------------------------------------------------------------------
(* A tick of the source.                                                   *)

\* The tick of the source is over.
Over == pc' = "idle" /\ probe' = None /\ head' = None /\ sum' = None

\* Probe: the tick ends when the token is the recorded one.
Probe ==
    /\ pc = "idle"
    /\ IF disk # None /\ disk.token = Token
       THEN UNCHANGED <<pc, probe>>
       ELSE /\ pc' = "head"
            /\ probe' = [token |-> Token,
                         digest |-> IF latest \in Digested THEN Current ELSE None]
    /\ UNCHANGED <<vendor, disk, head, sum>>

Url == probe.token.rel

\* Hashing is left out when the probe gave a digest.
AfterControl == IF probe.digest = None THEN "hash" ELSE "write"

\* 206: the head window, with the whole control member or a part of it.
RangeHead ==
    /\ pc = "head"
    /\ head' = At(Url)
    /\ pc' \in {"tail", AfterControl}
    /\ UNCHANGED <<vendor, disk, probe, sum>>

\* 200: the server ignores the range, and the body is hashed on the way; an
\* announced digest that differs ends the tick.
FullBody ==
    /\ pc = "head"
    /\ IF probe.digest \in {None, At(Url)}
       THEN /\ head' = At(Url) /\ sum' = At(Url)
            /\ pc' = "write"
            /\ UNCHANGED probe
       ELSE Over
    /\ UNCHANGED <<vendor, disk>>

\* The rest of the control member, from a second range request.  Parts of two
\* contents do not decompress.
RangeTail ==
    /\ pc = "tail"
    /\ IF At(Url) = head
       THEN /\ pc' = AfterControl
            /\ UNCHANGED <<probe, head, sum>>
       ELSE Over
    /\ UNCHANGED <<vendor, disk>>

\* The full download is hashed; its size must be that of the ranges.
StreamHash ==
    /\ pc = "hash"
    /\ IF SizeOf[asset[Url]] = SizeOf[head.build]
       THEN pc' = "write" /\ sum' = At(Url) /\ UNCHANGED <<probe, head>>
       ELSE Over
    /\ UNCHANGED <<vendor, disk>>

\* Fault: the token is asked for again when the state is written.
WriteStateFreshToken ==
    /\ pc = "write"
    /\ disk' = [token |-> Token, control |-> head,
                sha |-> IF sum # None THEN sum ELSE probe.digest]
    /\ Over
    /\ UNCHANGED vendor

\* Fault: what cannot be hashed keeps the hash it had.
WriteStateOldSum ==
    /\ pc = "write"
    /\ disk' = [token |-> probe.token, control |-> head,
                sha |-> IF disk # None THEN disk.sha
                        ELSE IF sum # None THEN sum ELSE probe.digest]
    /\ Over
    /\ UNCHANGED vendor

\* The state file is written.
WriteState ==
    /\ pc = "write"
    /\ disk' = [token |-> probe.token, control |-> head,
                sha |-> IF sum # None THEN sum ELSE probe.digest]
    /\ Over
    /\ UNCHANGED vendor

\* A request fails or is malformed, the stall watchdog fires, or the process
\* is killed.
Fail ==
    /\ pc # "idle"
    /\ Over
    /\ UNCHANGED <<vendor, disk>>

Tick == Probe \/ RangeHead \/ FullBody \/ RangeTail \/ StreamHash \/ WriteState

Next == Release \/ Replace \/ Tick \/ Fail

Spec == Init /\ [][Next]_vars

\* The ticker keeps ticking; a step that can be taken again and again succeeds
\* at some time.
Fairness ==
    /\ WF_vars(Probe)
    /\ SF_vars(RangeHead /\ pc' # "tail") /\ WF_vars(RangeTail)
    /\ SF_vars(StreamHash) /\ SF_vars(WriteState)

LiveSpec == Spec /\ Fairness

-----------------------------------------------------------------------------
(* Properties.                                                             *)

\* Type correctness of the vendor, the state file and the tick.
TypeOK ==
    /\ latest \in Nat /\ latest \in 1 .. MaxRel
    /\ asset \in [1 .. MaxRel -> Nat]
    /\ disk \in [token : Content, control : Content, sha : Content] \cup {None}
    /\ pc \in {"idle", "head", "tail", "hash", "write"}
    /\ probe \in [token : Content, digest : Content \cup {None}] \cup {None}
    /\ head \in Content \cup {None} /\ sum \in Content \cup {None}

\* A content read from the URL of a token, after the token: of its release,
\* not older than the token, and not yet to come.
After(token, c) ==
    /\ c.rel = token.rel
    /\ token.build <= c.build /\ 1 <= c.build
    /\ c.build <= asset[c.rel]

\* What a tick holds and the state file records was read after the token it
\* is recorded with: a token never vouches for something older than itself.
ReadAfterToken ==
    /\ disk # None =>
          /\ disk.token.rel \in 1 .. latest
          /\ After(disk.token, disk.control) /\ After(disk.token, disk.sha)
    /\ pc # "idle" =>
          /\ probe # None /\ probe.token.rel \in 1 .. latest
          /\ probe.token.build <= asset[probe.token.rel]
          /\ probe.digest # None => After(probe.token, probe.digest)
    /\ pc \in {"tail", "hash", "write"} => head # None /\ After(probe.token, head)
    /\ sum # None => After(probe.token, sum)
    /\ pc # "write" => sum = None
    /\ pc = "write" => sum # None \/ probe.digest # None

\* Every release that is out has an asset, and immutable assets stay at their
\* first build.
VendorInv == \A r \in 1 .. latest : asset[r] >= 1 /\ (~Replaceable => asset[r] = 1)

\* The inductive invariant of the proofs.
IInv == TypeOK /\ VendorInv /\ ReadAfterToken

\* When the probe answers "unchanged", the state file describes what the
\* vendor serves: the control file and the hash of the same, current asset.
UnchangedIsCurrent ==
    disk # None /\ disk.token = Token => disk.control = Current /\ disk.sha = Current

\* The hash and the control file of a state file are of one .deb.
OneDeb == disk # None => disk.control = disk.sha

\* Once the vendor rests, the state file comes to describe its asset.
Settled == disk # None /\ disk.control = Current /\ disk.sha = Current
EventuallySettled == <>[]Settled

=============================================================================
