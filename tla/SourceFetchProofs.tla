-------------------------- MODULE SourceFetchProofs --------------------------
(***************************************************************************)
(* What a state file of signpost is worth, for any number of releases and  *)
(* builds.  The argument: a token is read before anything recorded with    *)
(* it, and contents never come back, so what is read lies between the      *)
(* token and now (ReadAfterToken); when the token is still the vendor's,   *)
(* both ends are the same content.                                         *)
(***************************************************************************)
EXTENDS SourceFetch, TLAPS

USE DEF Content

\* What was read after a token stays so while the vendor moves on.
LEMMA AfterStable ==
    ASSUME NEW token, NEW c, After(token, c), Release \/ Replace,
           TypeOK, VendorInv, token \in Content, c \in Content,
           token.rel \in 1 .. latest
    PROVE  After(token, c)' /\ token.rel \in 1 .. latest'
<1>1. CASE Release
  BY <1>1, SourceFetchAssumption DEF Release, After, TypeOK
<1>2. CASE Replace
  BY <1>2, SourceFetchAssumption DEF Replace, After, TypeOK
<1> QED BY <1>1, <1>2

\* What the URL of a token serves was read after the token.
LEMMA AtUrl ==
    ASSUME TypeOK, VendorInv, NEW token \in Content, token.rel \in 1 .. latest,
           token.build <= asset[token.rel]
    PROVE  At(token.rel) \in Content /\ After(token, At(token.rel))
BY SourceFetchAssumption DEF At, After, TypeOK, VendorInv

LEMMA Initially == Init => IInv
BY SourceFetchAssumption DEF Init, IInv, TypeOK, VendorInv, ReadAfterToken

LEMMA Invariance == IInv /\ [Next]_vars => IInv'
<1> SUFFICES ASSUME IInv, [Next]_vars PROVE IInv'
  OBVIOUS
<1> USE DEF IInv
<1>1. CASE Release \/ Replace
  <2>1. TypeOK' /\ VendorInv'
    <3>1. CASE Release
      BY <3>1, SourceFetchAssumption DEF Release, TypeOK, VendorInv
    <3>2. CASE Replace
      BY <3>2, SourceFetchAssumption DEF Replace, TypeOK, VendorInv
    <3> QED BY <1>1, <3>1, <3>2
  <2>2. UNCHANGED <<disk, pc, probe, head, sum>>
    BY <1>1 DEF Release, Replace
  <2>3. disk # None =>
          /\ disk.token.rel \in 1 .. latest'
          /\ After(disk.token, disk.control)' /\ After(disk.token, disk.sha)'
    BY <1>1, <2>2, AfterStable DEF ReadAfterToken, TypeOK
  <2>4. pc # "idle" => /\ probe.token.rel \in 1 .. latest'
                       /\ probe.token.build <= asset'[probe.token.rel]
    <3>1. CASE Release
      BY <3>1, SourceFetchAssumption DEF Release, ReadAfterToken, TypeOK
    <3>2. CASE Replace
      BY <3>2, SourceFetchAssumption DEF Replace, ReadAfterToken, TypeOK
    <3> QED BY <1>1, <3>1, <3>2
  <2>5. pc # "idle" /\ probe.digest # None => After(probe.token, probe.digest)'
    BY <1>1, <2>2, AfterStable DEF ReadAfterToken, TypeOK
  <2>6. pc \in {"tail", "hash", "write"} => After(probe.token, head)'
    BY <1>1, <2>2, AfterStable DEF ReadAfterToken, TypeOK
  <2>7. sum # None => After(probe.token, sum)'
    BY <1>1, <2>2, AfterStable DEF ReadAfterToken, TypeOK
  <2>8. ReadAfterToken'
    BY <2>2, <2>3, <2>4, <2>5, <2>6, <2>7 DEF ReadAfterToken
  <2> QED BY <2>1, <2>8
<1>2. CASE Probe
  <2>1. Current \in Content /\ Token \in Content /\ Token.rel = latest
        /\ Token.build <= Current.build /\ 1 <= Current.build
        /\ Current.rel = latest /\ Current.build = asset[latest]
        /\ latest \in 1 .. latest
    BY SourceFetchAssumption DEF Token, Current, At, TypeOK, VendorInv
  <2>3. UNCHANGED <<latest, asset, disk, head, sum>>
    BY <1>2 DEF Probe, vendor
  <2>4. CASE disk # None /\ disk.token = Token
    BY <1>2, <2>3, <2>4 DEF Probe, TypeOK, VendorInv, ReadAfterToken, After
  <2>5. CASE ~(disk # None /\ disk.token = Token)
    <3>1. pc = "idle" /\ pc' = "head" /\ sum = None
          /\ probe' = [token |-> Token,
                       digest |-> IF latest \in Digested THEN Current ELSE None]
      BY <1>2, <2>5 DEF Probe, ReadAfterToken
    <3>2. TypeOK' /\ VendorInv'
      BY <2>1, <2>3, <3>1 DEF TypeOK, VendorInv
    <3>4. probe' # None
      <4>1. probe' \in [token : Content, digest : Content \cup {None}]
        BY <2>1, <3>1
      <4> QED BY <4>1, SourceFetchAssumption
    <3>5. probe'.token = Token
          /\ probe'.digest = IF latest \in Digested THEN Current ELSE None
      BY <3>1
    <3>6. probe'.digest # None => After(probe.token, probe.digest)'
      BY <2>1, <2>3, <3>5 DEF After
    <3>8. ReadAfterToken'
      BY <2>1, <2>3, <3>1, <3>4, <3>5, <3>6 DEF ReadAfterToken, After
    <3> QED BY <3>2, <3>8
  <2> QED BY <2>4, <2>5
<1>3. ASSUME pc # "idle", UNCHANGED vendor
      PROVE  /\ probe.token \in Content
             /\ At(Url) \in Content /\ After(probe.token, At(Url))
  <2>1. probe.token \in Content /\ probe.token.rel \in 1 .. latest
    BY <1>3 DEF ReadAfterToken, TypeOK
  <2>2. probe.token.build <= asset[probe.token.rel]
    BY <1>3 DEF ReadAfterToken
  <2> QED BY <2>1, <2>2, AtUrl DEF Url
<1>4. CASE RangeHead
  BY <1>3, <1>4, SourceFetchAssumption
     DEF RangeHead, AfterControl, vendor, TypeOK, VendorInv, ReadAfterToken, After
<1>5. CASE FullBody
  BY <1>3, <1>5, SourceFetchAssumption
     DEF FullBody, Over, vendor, TypeOK, VendorInv, ReadAfterToken, After
<1>6. CASE RangeTail
  BY <1>6, SourceFetchAssumption
     DEF RangeTail, AfterControl, Over, vendor, TypeOK, VendorInv, ReadAfterToken, After
<1>7. CASE StreamHash
  BY <1>3, <1>7, SourceFetchAssumption
     DEF StreamHash, Over, vendor, TypeOK, VendorInv, ReadAfterToken, After
<1>8. CASE WriteState
  BY <1>8, SourceFetchAssumption
     DEF WriteState, Over, vendor, TypeOK, VendorInv, ReadAfterToken, After
<1>9. CASE Fail
  BY <1>9, SourceFetchAssumption
     DEF Fail, Over, vendor, TypeOK, VendorInv, ReadAfterToken, After
<1>10. CASE UNCHANGED vars
  BY <1>10 DEF vars, vendor, TypeOK, VendorInv, ReadAfterToken, After
<1> QED BY <1>1, <1>2, <1>4, <1>5, <1>6, <1>7, <1>8, <1>9, <1>10 DEF Next, Tick

\* The state of the vendor, the tick and the state file has its type, and what
\* is recorded was read after the token it is recorded with.
THEOREM InductiveInvariant == Spec => []IInv
BY Initially, Invariance, PTL DEF Spec

\* What a tick holds and the state file records was read after its token.
THEOREM ReadsFollowToken == Spec => []ReadAfterToken
<1>1. IInv => ReadAfterToken
  BY DEF IInv
<1> QED BY <1>1, InductiveInvariant, PTL

\* When the token changes with every content, or assets are never replaced, a
\* probe that answers "unchanged" is right: the state file holds the control
\* file and the hash of the asset the vendor serves at that moment.
THEOREM UnchangedIsRight ==
    TokenIsContent \/ ~Replaceable => (Spec => []UnchangedIsCurrent)
<1> SUFFICES ASSUME TokenIsContent \/ ~Replaceable
             PROVE  Spec => []UnchangedIsCurrent
  OBVIOUS
<1>1. IInv => UnchangedIsCurrent
  <2> SUFFICES ASSUME IInv, disk # None, disk.token = Token
               PROVE  disk.control = Current /\ disk.sha = Current
    BY DEF UnchangedIsCurrent
  <2>1. disk.control \in Content /\ disk.sha \in Content
        /\ asset[latest] \in Nat /\ latest \in 1 .. latest
    BY SourceFetchAssumption DEF IInv, TypeOK
  <2>2. /\ disk.control.rel = latest /\ disk.control.build = asset[latest]
        /\ disk.sha.rel = latest /\ disk.sha.build = asset[latest]
    BY <2>1 DEF IInv, VendorInv, ReadAfterToken, After, Token, Current, At
  <2> QED BY <2>1, <2>2 DEF Current, At
<1> QED BY <1>1, InductiveInvariant, PTL

\* Immutable assets: the hash and the control file of a state file are of one
\* .deb, whatever the vendor releases during a tick.
THEOREM OneDebWhenImmutable == ~Replaceable => (Spec => []OneDeb)
<1> SUFFICES ASSUME ~Replaceable PROVE Spec => []OneDeb
  OBVIOUS
<1>1. IInv => OneDeb
  <2> SUFFICES ASSUME IInv, disk # None PROVE disk.control = disk.sha
    BY DEF OneDeb
  <2>1. disk.control \in Content /\ disk.sha \in Content
    BY DEF IInv, TypeOK
  <2>2. disk.control.rel = disk.sha.rel /\ disk.control.build = disk.sha.build
    BY <2>1 DEF IInv, VendorInv, ReadAfterToken, After
  <2> QED BY <2>1, <2>2
<1> QED BY <1>1, InductiveInvariant, PTL

=============================================================================
