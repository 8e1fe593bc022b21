--------------------------- MODULE EndpointProofs ---------------------------
(***************************************************************************)
(* Proofs about how the app and the extension meet: in EndpointLifecycle   *)
(* at an endpoint, for every number of writers, readers, objects,          *)
(* generations and lives; in ExtensionInstall because of how both were     *)
(* bundled and activated, for all teams, identities, groups and profiles.  *)
(* The two specifications share no variable.                               *)
(***************************************************************************)
EXTENDS EndpointLifecycle, ExtensionInstall, WellFoundedInduction, TLAPS

LEMMA HeaderFacts ==
  Fresh \in Header /\ [Fresh EXCEPT !.stage = "ready"] \in Header
  BY BoundsAssumption DEF Fresh, Header, Stages

LEMMA InitEndpoint == Init => IInv
  BY NoProcessAssumption, NoObjectAssumption, BoundsAssumption
  DEF Init, IInv, TypeOK, ObjectOpen, OneCreator, LockHeld, OwnerIsRecorded, Steps,
      Header, Stages, Fresh, Nobody, Creating, Holding

LEMMA NextEndpoint == IInv /\ [Next]_vars => IInv'
<1> SUFFICES ASSUME IInv, [Next]_vars PROVE IInv'
  OBVIOUS
<1>0. TypeOK /\ ObjectOpen /\ OneCreator /\ LockHeld /\ OwnerIsRecorded
  BY DEF IInv
<1>1. ASSUME NEW u \in Writers, Create(u) PROVE IInv'
  <2>1. TypeOK'
    BY <1>0, <1>1, NoProcessAssumption, NoObjectAssumption, BoundsAssumption
      DEF Create, At, Goto, Unused, TypeOK, Steps, Header, Stages, Life,
          Fresh, Me, writer, reader
  <2>2. ObjectOpen'
    BY <1>0, <1>1, NoProcessAssumption, NoObjectAssumption, BoundsAssumption
      DEF Create, At, Goto, Unused, ObjectOpen, TypeOK, writer, reader
  <2>3. OneCreator'
    BY <1>0, <1>1, NoProcessAssumption, NoObjectAssumption, BoundsAssumption
      DEF Create, At, Goto, Unused, OneCreator, Creating, Holding,
          ObjectOpen, TypeOK, Fresh, writer, reader
  <2>4. LockHeld'
    BY <1>0, <1>1, NoProcessAssumption, NoObjectAssumption, BoundsAssumption
      DEF Create, At, Goto, Unused, LockHeld, Holding, LockOf,
          OneCreator, ObjectOpen, TypeOK, writer, reader
  <2>5. OwnerIsRecorded'
    BY <1>0, <1>1, NoProcessAssumption, NoObjectAssumption, BoundsAssumption
      DEF Create, At, Goto, Unused, OwnerIsRecorded, Holding, Creating,
          OneCreator, ObjectOpen, LockHeld, TypeOK, Me, Fresh, Header,
          writer, reader
  <2> QED  BY <2>1, <2>2, <2>3, <2>4, <2>5 DEF IInv
<1>2. ASSUME NEW u \in Writers, Exists(u) PROVE IInv'
  <2>1. TypeOK'
    BY <1>0, <1>2, NoProcessAssumption, NoObjectAssumption, BoundsAssumption
      DEF Exists, At, Goto, TypeOK, Steps, Header, Stages, Life, Fresh,
          Me, writer, reader
  <2>2. ObjectOpen'
    BY <1>0, <1>2, NoProcessAssumption, NoObjectAssumption, BoundsAssumption
      DEF Exists, At, Goto, ObjectOpen, TypeOK, writer, reader
  <2>3. OneCreator'
    BY <1>0, <1>2, NoProcessAssumption, NoObjectAssumption, BoundsAssumption
      DEF Exists, At, Goto, OneCreator, Creating, Holding, ObjectOpen,
          TypeOK, Fresh, writer, reader
  <2>4. LockHeld'
    BY <1>0, <1>2, NoProcessAssumption, NoObjectAssumption, BoundsAssumption
      DEF Exists, At, Goto, LockHeld, Holding, LockOf, OneCreator,
          ObjectOpen, TypeOK, writer, reader
  <2>5. OwnerIsRecorded'
    BY <1>0, <1>2, NoProcessAssumption, NoObjectAssumption, BoundsAssumption
      DEF Exists, At, Goto, OwnerIsRecorded, Holding, Creating,
          OneCreator, ObjectOpen, LockHeld, TypeOK, Me, Fresh, Header,
          writer, reader
  <2> QED  BY <2>1, <2>2, <2>3, <2>4, <2>5 DEF IInv
<1>3. ASSUME NEW u \in Writers, OpenExisting(u) PROVE IInv'
  <2>1. TypeOK'
    BY <1>0, <1>3, NoProcessAssumption, NoObjectAssumption, BoundsAssumption
      DEF OpenExisting, At, Goto, TypeOK, Steps, Header, Stages, Life,
          Fresh, Me, writer, reader
  <2>2. ObjectOpen'
    BY <1>0, <1>3, NoProcessAssumption, NoObjectAssumption, BoundsAssumption
      DEF OpenExisting, At, Goto, ObjectOpen, TypeOK, writer, reader
  <2>3. OneCreator'
    BY <1>0, <1>3, NoProcessAssumption, NoObjectAssumption, BoundsAssumption
      DEF OpenExisting, At, Goto, OneCreator, Creating, Holding,
          ObjectOpen, TypeOK, Fresh, writer, reader
  <2>4. LockHeld'
    BY <1>0, <1>3, NoProcessAssumption, NoObjectAssumption, BoundsAssumption
      DEF OpenExisting, At, Goto, LockHeld, Holding, LockOf, OneCreator,
          ObjectOpen, TypeOK, writer, reader
  <2>5. OwnerIsRecorded'
    BY <1>0, <1>3, NoProcessAssumption, NoObjectAssumption, BoundsAssumption
      DEF OpenExisting, At, Goto, OwnerIsRecorded, Holding, Creating,
          OneCreator, ObjectOpen, LockHeld, TypeOK, Me, Fresh, Header,
          writer, reader
  <2> QED  BY <2>1, <2>2, <2>3, <2>4, <2>5 DEF IInv
<1>4. ASSUME NEW u \in Writers, CheckLength(u) PROVE IInv'
  <2>1. TypeOK'
    BY <1>0, <1>4, NoProcessAssumption, NoObjectAssumption, BoundsAssumption
      DEF CheckLength, At, Goto, Refused, TypeOK, Steps, Header, Stages,
          Life, Fresh, Me, writer, reader
  <2>2. ObjectOpen'
    BY <1>0, <1>4, NoProcessAssumption, NoObjectAssumption, BoundsAssumption
      DEF CheckLength, At, Goto, Refused, ObjectOpen, TypeOK, writer,
          reader
  <2>3. OneCreator'
    BY <1>0, <1>4, NoProcessAssumption, NoObjectAssumption, BoundsAssumption
      DEF CheckLength, At, Goto, Refused, OneCreator, Creating, Holding,
          ObjectOpen, TypeOK, Fresh, writer, reader
  <2>4. LockHeld'
    BY <1>0, <1>4, NoProcessAssumption, NoObjectAssumption, BoundsAssumption
      DEF CheckLength, At, Goto, Refused, LockHeld, Holding, LockOf,
          OneCreator, ObjectOpen, TypeOK, writer, reader
  <2>5. OwnerIsRecorded'
    BY <1>0, <1>4, NoProcessAssumption, NoObjectAssumption, BoundsAssumption
      DEF CheckLength, At, Goto, Refused, OwnerIsRecorded, Holding,
          Creating, OneCreator, ObjectOpen, LockHeld, TypeOK, Me, Fresh,
          Header, writer, reader
  <2> QED  BY <2>1, <2>2, <2>3, <2>4, <2>5 DEF IInv
<1>5. ASSUME NEW u \in Writers, CheckHeader(u) PROVE IInv'
  <2>1. TypeOK'
    BY <1>0, <1>5, NoProcessAssumption, NoObjectAssumption, BoundsAssumption
      DEF CheckHeader, At, Goto, Refused, TypeOK, Steps, Header, Stages,
          Life, Fresh, Me, writer, reader
  <2>2. ObjectOpen'
    BY <1>0, <1>5, NoProcessAssumption, NoObjectAssumption, BoundsAssumption
      DEF CheckHeader, At, Goto, Refused, ObjectOpen, TypeOK, writer,
          reader
  <2>3. OneCreator'
    BY <1>0, <1>5, NoProcessAssumption, NoObjectAssumption, BoundsAssumption
      DEF CheckHeader, At, Goto, Refused, OneCreator, Creating, Holding,
          ObjectOpen, TypeOK, Fresh, writer, reader
  <2>4. LockHeld'
    BY <1>0, <1>5, NoProcessAssumption, NoObjectAssumption, BoundsAssumption
      DEF CheckHeader, At, Goto, Refused, LockHeld, Holding, LockOf,
          OneCreator, ObjectOpen, TypeOK, writer, reader
  <2>5. OwnerIsRecorded'
    BY <1>0, <1>5, NoProcessAssumption, NoObjectAssumption, BoundsAssumption
      DEF CheckHeader, At, Goto, Refused, OwnerIsRecorded, Holding,
          Creating, OneCreator, ObjectOpen, LockHeld, TypeOK, Me, Fresh,
          Header, writer, reader
  <2> QED  BY <2>1, <2>2, <2>3, <2>4, <2>5 DEF IInv
<1>6. ASSUME NEW u \in Writers, SetLength(u) PROVE IInv'
  <2>1. TypeOK'
    BY <1>0, <1>6, NoProcessAssumption, NoObjectAssumption, BoundsAssumption
      DEF SetLength, At, Goto, TypeOK, Steps, Header, Stages, Life,
          Fresh, Me, writer, reader
  <2>2. ObjectOpen'
    BY <1>0, <1>6, NoProcessAssumption, NoObjectAssumption, BoundsAssumption
      DEF SetLength, At, Goto, ObjectOpen, TypeOK, writer, reader
  <2>3. OneCreator'
    BY <1>0, <1>6, NoProcessAssumption, NoObjectAssumption, BoundsAssumption
      DEF SetLength, At, Goto, OneCreator, Creating, Holding,
          ObjectOpen, TypeOK, Fresh, writer, reader
  <2>4. LockHeld'
    BY <1>0, <1>6, NoProcessAssumption, NoObjectAssumption, BoundsAssumption
      DEF SetLength, At, Goto, LockHeld, Holding, LockOf, OneCreator,
          ObjectOpen, TypeOK, writer, reader
  <2>5. OwnerIsRecorded'
    BY <1>0, <1>6, NoProcessAssumption, NoObjectAssumption, BoundsAssumption
      DEF SetLength, At, Goto, OwnerIsRecorded, Holding, Creating,
          OneCreator, ObjectOpen, LockHeld, TypeOK, Me, Fresh, Header,
          writer, reader
  <2> QED  BY <2>1, <2>2, <2>3, <2>4, <2>5 DEF IInv
<1>7. ASSUME NEW u \in Writers, Initialize(u) PROVE IInv'
  <2>1. TypeOK'
    <3>1. object' \in [Objects -> Header]
      BY <1>0, <1>7, HeaderFacts, NoObjectAssumption, BoundsAssumption
        DEF Initialize, At, TypeOK, ObjectOpen, Fresh
    <3> QED  BY <1>0, <1>7, <3>1, BoundsAssumption
      DEF Initialize, Goto, TypeOK, Steps, reader
  <2>2. ObjectOpen'
    BY <1>0, <1>7, NoProcessAssumption, NoObjectAssumption, BoundsAssumption
      DEF Initialize, At, Goto, ObjectOpen, TypeOK, writer, reader
  <2>3. OneCreator'
    BY <1>0, <1>7, NoProcessAssumption, NoObjectAssumption, BoundsAssumption
      DEF Initialize, At, Goto, OneCreator, Creating, Holding,
          ObjectOpen, TypeOK, Fresh, writer, reader
  <2>4. LockHeld'
    BY <1>0, <1>7, NoProcessAssumption, NoObjectAssumption, BoundsAssumption
      DEF Initialize, At, Goto, LockHeld, Holding, LockOf, OneCreator,
          ObjectOpen, TypeOK, writer, reader
  <2>5. OwnerIsRecorded'
    BY <1>0, <1>7, NoProcessAssumption, NoObjectAssumption, BoundsAssumption
      DEF Initialize, At, Goto, OwnerIsRecorded, Holding, Creating,
          OneCreator, ObjectOpen, LockHeld, TypeOK, Me, Fresh, Header,
          writer, reader
  <2> QED  BY <2>1, <2>2, <2>3, <2>4, <2>5 DEF IInv
<1>8. ASSUME NEW u \in Writers, LockWriter(u) PROVE IInv'
  <2>1. TypeOK'
    BY <1>0, <1>8, NoProcessAssumption, NoObjectAssumption, BoundsAssumption
      DEF LockWriter, At, Goto, Refused, TypeOK, Steps, Header, Stages,
          Life, Fresh, Me, writer, reader
  <2>2. ObjectOpen'
    BY <1>0, <1>8, NoProcessAssumption, NoObjectAssumption, BoundsAssumption
      DEF LockWriter, At, Goto, Refused, ObjectOpen, TypeOK, writer,
          reader
  <2>3. OneCreator'
    BY <1>0, <1>8, NoProcessAssumption, NoObjectAssumption, BoundsAssumption
      DEF LockWriter, At, Goto, Refused, OneCreator, Creating, Holding,
          ObjectOpen, TypeOK, Fresh, writer, reader
  <2>4. LockHeld'
    BY <1>0, <1>8, NoProcessAssumption, NoObjectAssumption, BoundsAssumption
      DEF LockWriter, At, Goto, Refused, LockHeld, Holding, LockOf,
          OneCreator, ObjectOpen, TypeOK, writer, reader
  <2>5. OwnerIsRecorded'
    <3>1. UNCHANGED <<object, gen, life>>
      BY <1>8 DEF LockWriter
    <3>2. \A w \in Writers : step'[w] = "connected" =>
            step[w] = "connected" /\ mine'[w] = mine[w]
      BY <1>0, <1>8 DEF LockWriter, At, Goto, Refused, TypeOK
    <3>3. \A v \in Writers : step'[v] \in Holding =>
            /\ mine'[v] = mine[v]
            /\ step[v] \in Holding \/ lock[LockOf(mine[v])] = NoProcess
      BY <1>0, <1>8 DEF LockWriter, At, Goto, Refused, Holding, TypeOK
    <3>4. \A w \in Writers : step[w] = "connected" => lock[LockOf(mine[w])] \in Writers
      BY <1>0 DEF LockHeld, Holding
    <3> QED
      BY <1>0, <3>1, <3>2, <3>3, <3>4, NoProcessAssumption DEF OwnerIsRecorded, Me
  <2> QED  BY <2>1, <2>2, <2>3, <2>4, <2>5 DEF IInv
<1>9. ASSUME NEW u \in Writers, StoreOwner(u) PROVE IInv'
  <2>1. TypeOK'
    <3>1. /\ mine[u] \in Objects /\ object[mine[u]] \in Header
          /\ lastGen + 1 \in 0 .. MaxGen /\ Me(u) \in Life
      BY <1>0, <1>9, NoObjectAssumption, BoundsAssumption
        DEF StoreOwner, At, TypeOK, ObjectOpen, Me, Life
    <3>2. object' \in [Objects -> Header]
      BY <1>0, <1>9, <3>1 DEF StoreOwner, TypeOK, Header
    <3> QED  BY <1>0, <1>9, <3>1, <3>2, BoundsAssumption
      DEF StoreOwner, Goto, TypeOK, Steps, reader
  <2>2. ObjectOpen'
    BY <1>0, <1>9, NoProcessAssumption, NoObjectAssumption, BoundsAssumption
      DEF StoreOwner, At, Goto, ObjectOpen, TypeOK, writer, reader
  <2>3. OneCreator'
    BY <1>0, <1>9, NoProcessAssumption, NoObjectAssumption, BoundsAssumption
      DEF StoreOwner, At, Goto, OneCreator, Creating, Holding,
          ObjectOpen, TypeOK, Fresh, writer, reader
  <2>4. LockHeld'
    BY <1>0, <1>9, NoProcessAssumption, NoObjectAssumption, BoundsAssumption
      DEF StoreOwner, At, Goto, LockHeld, Holding, LockOf, OneCreator,
          ObjectOpen, TypeOK, writer, reader
  <2>5. OwnerIsRecorded'
    BY <1>0, <1>9, NoProcessAssumption, NoObjectAssumption, BoundsAssumption
      DEF StoreOwner, At, Goto, OwnerIsRecorded, Holding, Creating,
          OneCreator, ObjectOpen, LockHeld, TypeOK, Me, Fresh, Header,
          writer, reader
  <2> QED  BY <2>1, <2>2, <2>3, <2>4, <2>5 DEF IInv
<1>10. ASSUME NEW u \in Writers, ClearOwner(u) PROVE IInv'
  <2>1. TypeOK'
    <3>1. /\ mine[u] \in Objects /\ object[mine[u]] \in Header
          /\ 0 \in 0 .. MaxGen
      BY <1>0, <1>10, NoObjectAssumption, BoundsAssumption
        DEF ClearOwner, At, TypeOK, ObjectOpen
    <3>2. object' \in [Objects -> Header]
      BY <1>0, <1>10, <3>1 DEF ClearOwner, TypeOK, Header
    <3> QED  BY <1>0, <1>10, <3>2
      DEF ClearOwner, Goto, TypeOK, Steps, reader
  <2>2. ObjectOpen'
    BY <1>0, <1>10, NoProcessAssumption, NoObjectAssumption, BoundsAssumption
      DEF ClearOwner, At, Goto, ObjectOpen, TypeOK, writer, reader
  <2>3. OneCreator'
    BY <1>0, <1>10, NoProcessAssumption, NoObjectAssumption, BoundsAssumption
      DEF ClearOwner, At, Goto, OneCreator, Creating, Holding,
          ObjectOpen, TypeOK, Fresh, writer, reader
  <2>4. LockHeld'
    BY <1>0, <1>10, NoProcessAssumption, NoObjectAssumption, BoundsAssumption
      DEF ClearOwner, At, Goto, LockHeld, Holding, LockOf, OneCreator,
          ObjectOpen, TypeOK, writer, reader
  <2>5. OwnerIsRecorded'
    BY <1>0, <1>10, NoProcessAssumption, NoObjectAssumption, BoundsAssumption
      DEF ClearOwner, At, Goto, OwnerIsRecorded, Holding, Creating,
          OneCreator, ObjectOpen, LockHeld, TypeOK, Me, Fresh, Header,
          writer, reader
  <2> QED  BY <2>1, <2>2, <2>3, <2>4, <2>5 DEF IInv
<1>11. ASSUME NEW u \in Writers, Unlock(u) PROVE IInv'
  <2>1. TypeOK'
    BY <1>0, <1>11, NoProcessAssumption, NoObjectAssumption, BoundsAssumption
      DEF Unlock, At, Goto, TypeOK, Steps, Header, Stages, Life, Fresh,
          Me, writer, reader
  <2>2. ObjectOpen'
    BY <1>0, <1>11, NoProcessAssumption, NoObjectAssumption, BoundsAssumption
      DEF Unlock, At, Goto, ObjectOpen, TypeOK, writer, reader
  <2>3. OneCreator'
    BY <1>0, <1>11, NoProcessAssumption, NoObjectAssumption, BoundsAssumption
      DEF Unlock, At, Goto, OneCreator, Creating, Holding, ObjectOpen,
          TypeOK, Fresh, writer, reader
  <2>4. LockHeld'
    BY <1>0, <1>11, NoProcessAssumption, NoObjectAssumption, BoundsAssumption
      DEF Unlock, At, Goto, LockHeld, Holding, LockOf, OneCreator,
          ObjectOpen, TypeOK, writer, reader
  <2>5. OwnerIsRecorded'
    BY <1>0, <1>11, NoProcessAssumption, NoObjectAssumption, BoundsAssumption
      DEF Unlock, At, Goto, OwnerIsRecorded, Holding, Creating,
          OneCreator, ObjectOpen, LockHeld, TypeOK, Me, Fresh, Header,
          writer, reader
  <2> QED  BY <2>1, <2>2, <2>3, <2>4, <2>5 DEF IInv
<1>12. ASSUME NEW u \in Writers, Unlink(u) PROVE IInv'
  <2>1. TypeOK'
    BY <1>0, <1>12, NoProcessAssumption, NoObjectAssumption, BoundsAssumption
      DEF Unlink, At, Goto, TypeOK, Steps, Header, Stages, Life, Fresh,
          Me, writer, reader
  <2>2. ObjectOpen'
    BY <1>0, <1>12, NoProcessAssumption, NoObjectAssumption, BoundsAssumption
      DEF Unlink, At, Goto, ObjectOpen, TypeOK, writer, reader
  <2>3. OneCreator'
    BY <1>0, <1>12, NoProcessAssumption, NoObjectAssumption, BoundsAssumption
      DEF Unlink, At, Goto, OneCreator, Creating, Holding, ObjectOpen,
          TypeOK, Fresh, writer, reader
  <2>4. LockHeld'
    BY <1>0, <1>12, NoProcessAssumption, NoObjectAssumption, BoundsAssumption
      DEF Unlink, At, Goto, LockHeld, Holding, LockOf, OneCreator,
          ObjectOpen, TypeOK, writer, reader
  <2>5. OwnerIsRecorded'
    BY <1>0, <1>12, NoProcessAssumption, NoObjectAssumption, BoundsAssumption
      DEF Unlink, At, Goto, OwnerIsRecorded, Holding, Creating,
          OneCreator, ObjectOpen, LockHeld, TypeOK, Me, Fresh, Header,
          writer, reader
  <2> QED  BY <2>1, <2>2, <2>3, <2>4, <2>5 DEF IInv
<1>13. ASSUME NEW u \in Writers, Crash(u) PROVE IInv'
  <2>1. TypeOK'
    BY <1>0, <1>13, NoProcessAssumption, NoObjectAssumption, BoundsAssumption
      DEF Crash, At, Goto, Refused, TypeOK, Steps, Header, Stages, Life,
          Fresh, Me, writer, reader
  <2>2. ObjectOpen'
    BY <1>0, <1>13, NoProcessAssumption, NoObjectAssumption, BoundsAssumption
      DEF Crash, At, Goto, Refused, ObjectOpen, TypeOK, writer, reader
  <2>3. OneCreator'
    BY <1>0, <1>13, NoProcessAssumption, NoObjectAssumption, BoundsAssumption
      DEF Crash, At, Goto, Refused, OneCreator, Creating, Holding,
          ObjectOpen, TypeOK, Fresh, writer, reader
  <2>4. LockHeld'
    BY <1>0, <1>13, NoProcessAssumption, NoObjectAssumption, BoundsAssumption
      DEF Crash, At, Goto, Refused, LockHeld, Holding, LockOf,
          OneCreator, ObjectOpen, TypeOK, writer, reader
  <2>5. OwnerIsRecorded'
    BY <1>0, <1>13, NoProcessAssumption, NoObjectAssumption, BoundsAssumption
      DEF Crash, At, Goto, Refused, OwnerIsRecorded, Holding, Creating,
          OneCreator, ObjectOpen, LockHeld, TypeOK, Me, Fresh, Header,
          writer, reader
  <2> QED  BY <2>1, <2>2, <2>3, <2>4, <2>5 DEF IInv
<1>14. ASSUME NEW r \in Readers, OpenObject(r) PROVE IInv'
  <2>1. TypeOK'
    BY <1>0, <1>14, NoProcessAssumption, NoObjectAssumption, BoundsAssumption
      DEF OpenObject, TypeOK, Steps, Header, Stages, Life, Fresh, Me,
          writer, reader
  <2>2. ObjectOpen'
    BY <1>0, <1>14, NoProcessAssumption, NoObjectAssumption, BoundsAssumption
      DEF OpenObject, ObjectOpen, TypeOK, writer, reader
  <2>3. OneCreator'
    BY <1>0, <1>14, NoProcessAssumption, NoObjectAssumption, BoundsAssumption
      DEF OpenObject, OneCreator, Creating, Holding, ObjectOpen, TypeOK,
          Fresh, writer, reader
  <2>4. LockHeld'
    BY <1>0, <1>14, NoProcessAssumption, NoObjectAssumption, BoundsAssumption
      DEF OpenObject, LockHeld, Holding, LockOf, OneCreator, ObjectOpen,
          TypeOK, writer, reader
  <2>5. OwnerIsRecorded'
    BY <1>0, <1>14, NoProcessAssumption, NoObjectAssumption, BoundsAssumption
      DEF OpenObject, OwnerIsRecorded, Holding, Creating, OneCreator,
          ObjectOpen, LockHeld, TypeOK, Me, Fresh, Header, writer,
          reader
  <2> QED  BY <2>1, <2>2, <2>3, <2>4, <2>5 DEF IInv
<1>15. ASSUME NEW r \in Readers, CheckOpened(r) PROVE IInv'
  <2>1. TypeOK'
    BY <1>0, <1>15, NoProcessAssumption, NoObjectAssumption, BoundsAssumption
      DEF CheckOpened, TypeOK, Steps, Header, Stages, Life, Fresh, Me,
          writer, reader
  <2>2. ObjectOpen'
    BY <1>0, <1>15, NoProcessAssumption, NoObjectAssumption, BoundsAssumption
      DEF CheckOpened, ObjectOpen, TypeOK, writer, reader
  <2>3. OneCreator'
    BY <1>0, <1>15, NoProcessAssumption, NoObjectAssumption, BoundsAssumption
      DEF CheckOpened, OneCreator, Creating, Holding, ObjectOpen,
          TypeOK, Fresh, writer, reader
  <2>4. LockHeld'
    BY <1>0, <1>15, NoProcessAssumption, NoObjectAssumption, BoundsAssumption
      DEF CheckOpened, LockHeld, Holding, LockOf, OneCreator,
          ObjectOpen, TypeOK, writer, reader
  <2>5. OwnerIsRecorded'
    BY <1>0, <1>15, NoProcessAssumption, NoObjectAssumption, BoundsAssumption
      DEF CheckOpened, OwnerIsRecorded, Holding, Creating, OneCreator,
          ObjectOpen, LockHeld, TypeOK, Me, Fresh, Header, writer,
          reader
  <2> QED  BY <2>1, <2>2, <2>3, <2>4, <2>5 DEF IInv
<1>16. ASSUME NEW r \in Readers, GiveUp(r) PROVE IInv'
  <2>1. TypeOK'
    BY <1>0, <1>16, NoProcessAssumption, NoObjectAssumption, BoundsAssumption
      DEF GiveUp, TypeOK, Steps, Header, Stages, Life, Fresh, Me,
          writer, reader
  <2>2. ObjectOpen'
    BY <1>0, <1>16, NoProcessAssumption, NoObjectAssumption, BoundsAssumption
      DEF GiveUp, ObjectOpen, TypeOK, writer, reader
  <2>3. OneCreator'
    BY <1>0, <1>16, NoProcessAssumption, NoObjectAssumption, BoundsAssumption
      DEF GiveUp, OneCreator, Creating, Holding, ObjectOpen, TypeOK,
          Fresh, writer, reader
  <2>4. LockHeld'
    BY <1>0, <1>16, NoProcessAssumption, NoObjectAssumption, BoundsAssumption
      DEF GiveUp, LockHeld, Holding, LockOf, OneCreator, ObjectOpen,
          TypeOK, writer, reader
  <2>5. OwnerIsRecorded'
    BY <1>0, <1>16, NoProcessAssumption, NoObjectAssumption, BoundsAssumption
      DEF GiveUp, OwnerIsRecorded, Holding, Creating, OneCreator,
          ObjectOpen, LockHeld, TypeOK, Me, Fresh, Header, writer,
          reader
  <2> QED  BY <2>1, <2>2, <2>3, <2>4, <2>5 DEF IInv
<1>17. CASE UNCHANGED vars
  BY <1>0, <1>17
    DEF vars, writer, reader, IInv, TypeOK, ObjectOpen, OneCreator,
        LockHeld, OwnerIsRecorded, Steps, Header, Stages, Life, Fresh, Me,
        Creating, Holding, LockOf
<1> QED
  BY <1>1, <1>2, <1>3, <1>4, <1>5, <1>6, <1>7, <1>8, <1>9, <1>10, <1>11, <1>12, <1>13, <1>14, <1>15, <1>16, <1>17
    DEF Next, Connect, Leave, Poll
-----------------------------------------------------------------------------
THEOREM EndpointInvariance == Spec => []IInv
<1>1. Init => IInv
  BY InitEndpoint
<1>2. IInv /\ [Next]_vars => IInv'
  BY NextEndpoint
<1> QED  BY <1>1, <1>2, PTL DEF Spec

(* Of any number of writers that create, open, crash and leave, those that  *)
(* are connected are the recorded owners of their objects; a POSIX endpoint *)
(* has one such writer, its lock being one for all the objects.             *)
THEOREM EndpointInvHolds == Spec => []EndpointInv
<1>1. ASSUME IInv PROVE OnePosixPublisher
  <2> SUFFICES ASSUME kind = "Posix", NEW v \in Writers, NEW w \in Writers,
                      step[v] = "connected", step[w] = "connected"
               PROVE  v = w
    BY DEF OnePosixPublisher, OnePublisher
  <2>1. LockOf(mine[v]) = LockOf(mine[w])
    BY DEF LockOf
  <2>2. lock[LockOf(mine[v])] = v /\ lock[LockOf(mine[w])] = w
    BY <1>1 DEF IInv, LockHeld, Holding
  <2> QED  BY <2>1, <2>2
<1>2. IInv => EndpointInv
  BY <1>1 DEF IInv, EndpointInv
<1> QED  BY <1>2, EndpointInvariance, PTL

(* Nobody changes the length or the header of a connected writer's object.  *)
THEOREM LiveRegionUndisturbedHolds == Spec => LiveRegionUndisturbed
<1> DEFINE Undisturbed ==
      \A w \in Writers :
        step[w] = "connected" /\ step'[w] = "connected" =>
          object'[mine[w]] = object[mine[w]]
<1>1. ASSUME IInv, [Next]_vars, NEW w \in Writers,
             step[w] = "connected", step'[w] = "connected"
      PROVE  object'[mine[w]] = object[mine[w]]
  <2>0. TypeOK /\ ObjectOpen /\ OneCreator /\ LockHeld /\ OwnerIsRecorded
    BY <1>1 DEF IInv
  <2>1. /\ mine[w] \in Objects /\ object[mine[w]].stage = "ready"
        /\ lock[LockOf(mine[w])] = w
    BY <1>1, <2>0 DEF TypeOK, ObjectOpen, OneCreator, LockHeld, Holding
  <2>2. ASSUME NEW u \in Writers, Create(u) PROVE object'[mine[w]] = object[mine[w]]
    BY <2>0, <2>1, <2>2 DEF Create, Unused, TypeOK
  <2>3. ASSUME NEW u \in Writers, SetLength(u) \/ Initialize(u)
        PROVE  object'[mine[w]] = object[mine[w]]
    BY <2>0, <2>1, <2>3 DEF SetLength, Initialize, At, OneCreator, Creating, TypeOK
  <2>4. ASSUME NEW u \in Writers, StoreOwner(u) \/ ClearOwner(u)
        PROVE  object'[mine[w]] = object[mine[w]]
    <3>1. step[u] \in Holding /\ u # w
      BY <1>1, <2>0, <2>4 DEF StoreOwner, ClearOwner, At, Goto, Holding, TypeOK
    <3>2. mine[u] # mine[w]
      BY <1>1, <2>0, <3>1 DEF OwnerIsRecorded
    <3> QED  BY <2>0, <2>1, <2>4, <3>2 DEF StoreOwner, ClearOwner, TypeOK
  <2>5. CASE UNCHANGED object
    BY <2>5
  <2> QED
    BY <1>1, <2>2, <2>3, <2>4, <2>5
      DEF Next, Connect, Leave, Poll, vars, Exists, OpenExisting, CheckLength,
          CheckHeader, LockWriter, Unlock, Unlink, Crash, OpenObject, CheckOpened,
          GiveUp
<1>2. IInv /\ [Next]_vars => [Undisturbed]_vars
  BY <1>1
<1>3. LiveRegionUndisturbed <=> [][Undisturbed]_vars
  BY DEF LiveRegionUndisturbed
<1> HIDE DEF Undisturbed
<1> QED  BY <1>2, <1>3, EndpointInvariance, PTL DEF Spec

-----------------------------------------------------------------------------
(***************************************************************************)
(* ExtensionInstall.                                                       *)
(***************************************************************************)

(* Min of FiniteSetsExt is a member. *)
LEMMA LeastIsMember == ASSUME NEW S \in SUBSET Nat, S # {} PROVE Min(S) \in S
<1> DEFINE Less == {ss \in Nat \X Nat : ss[1] < ss[2]}
<1>1. IsWellFoundedOn(Less, Nat)
  BY NatLessThanWellFounded, Zenon DEF OpToRel
<1>2. PICK x \in S : \A y \in S : <<y, x>> \notin Less
  BY <1>1, WFMin, Zenon
<1>3. \A y \in S : ~(y < x)
  BY <1>2
<1>4. \A y \in S : x <= y
  BY <1>3
<1> QED
  BY <1>4 DEF Min

(* The group that bundler and readiness check select is one of both profiles. *)
LEMMA SharedIsCommon ==
  ASSUME NEW a \in AppProfiles, NEW e \in ExtProfiles, NEW requested,
         SharedGroup(a, e, requested) # None
  PROVE  /\ SharedGroup(a, e, requested) \in CommonGroups(a, e)
         /\ SharedGroup(a, e, requested) \in Groups
<1>1. CommonGroups(a, e) \subseteq Groups
  BY ProfilesAssumption DEF CommonGroups
<1>2. CASE requested # None
  BY <1>1, <1>2 DEF SharedGroup
<1>3. CASE requested = None
  <2>1. CommonGroups(a, e) \in SUBSET Nat /\ CommonGroups(a, e) # {}
    BY <1>1, <1>3, GroupsAssumption DEF SharedGroup
  <2> QED
    BY <1>1, <1>3, <2>1, LeastIsMember DEF SharedGroup
<1> QED
  BY <1>2, <1>3

LEMMA PlaceFacts ==
  /\ Place["idle"] = 0 /\ Place["remove"] = 1 /\ Place["copy"] = 2
  /\ Place["extPlist"] = 3 /\ Place["extEmbed"] = 4 /\ Place["extSign"] = 5
  /\ Place["extVerify"] = 6 /\ Place["plist"] = 7 /\ Place["signExe"] = 8
  /\ Place["embed"] = 9 /\ Place["sign"] = 10 /\ Place["verify"] = 11 /\ Place["done"] = 12
  BY DEF Place

LEMMA EmptyIsBundle ==
  ASSUME NEW half, NEW team
  PROVE  /\ IsBundle(EmptyBundle(half, team), half)
         /\ EmptyBundle(half, team).group = None
         /\ EmptyBundle(half, team).ext = NoExtension
         /\ EmptyBundle(half, team).signature = Unsigned
  BY DEF IsBundle, EmptyBundle

LEMMA ExtensionReplaced ==
  ASSUME NEW b, NEW half, IsBundle(b, half), NEW x
  PROVE  LET c == [b EXCEPT !.ext = x] IN
         /\ IsBundle(c, half) /\ c.ext = x
         /\ c.plist = b.plist /\ c.service = b.service /\ c.group = b.group
         /\ c.profile = b.profile /\ c.exeTeam = b.exeTeam /\ c.signature = b.signature
  BY DEF IsBundle

LEMMA ProfileEmbedded ==
  ASSUME NEW b, NEW half, IsBundle(b, half), NEW x
  PROVE  LET c == [b EXCEPT !.profile = x] IN
         /\ IsBundle(c, half) /\ c.profile = x
         /\ c.plist = b.plist /\ c.service = b.service /\ c.group = b.group
         /\ c.ext = b.ext /\ c.exeTeam = b.exeTeam /\ c.signature = b.signature
  BY DEF IsBundle

LEMMA ExecutableSigned ==
  ASSUME NEW b, NEW half, IsBundle(b, half), NEW x
  PROVE  LET c == [b EXCEPT !.exeTeam = x] IN
         /\ IsBundle(c, half) /\ c.exeTeam = x
         /\ c.plist = b.plist /\ c.service = b.service /\ c.group = b.group
         /\ c.ext = b.ext /\ c.profile = b.profile /\ c.signature = b.signature
  BY DEF IsBundle

(* The app bundle once its Info.plist is written. *)
Named(b, p, g) == [b EXCEPT !.plist = p, !.group = g]

LEMMA PlistWritten ==
  ASSUME NEW b, NEW half, IsBundle(b, half), NEW p, NEW g
  PROVE  /\ IsBundle(Named(b, p, g), half)
         /\ Named(b, p, g).plist = p /\ Named(b, p, g).group = g
         /\ Named(b, p, g).ext = b.ext /\ Named(b, p, g).signature = b.signature
<1> DEFINE d == [b EXCEPT !.plist = p]
<1>1. IsBundle(d, half) /\ d.plist = p /\ d.ext = b.ext /\ d.signature = b.signature
  BY DEF IsBundle
<1>2. Named(b, p, g) = [d EXCEPT !.group = g]
  BY DEF Named
<1> HIDE DEF d
<1> QED
  BY <1>1, <1>2 DEF IsBundle

LEMMA SignedIsWhole ==
  ASSUME NEW b, NEW half, IsBundle(b, half), NEW identity, NEW entitlements, NEW group
  PROVE  LET c == Sign(b, identity, entitlements, group) IN
         /\ IsBundle(c, half) /\ Verified(c)
         /\ c.signature.team = TeamOf(identity) /\ c.signature.entitlements = entitlements
         /\ c.signature.groups = IF group = None THEN {} ELSE {group}
         /\ OneGroup(c.signature)
         /\ c.plist = b.plist /\ c.group = b.group /\ c.service = b.service
         /\ c.exeTeam = b.exeTeam /\ c.ext = b.ext /\ c.profile = b.profile
<1> DEFINE c == Sign(b, identity, entitlements, group)
<1>1. /\ IsBundle(c, half)
      /\ c.plist = b.plist /\ c.group = b.group /\ c.service = b.service
      /\ c.exeTeam = b.exeTeam /\ c.ext = b.ext /\ c.profile = b.profile
      /\ c.signature = [team |-> TeamOf(identity), entitlements |-> entitlements,
                        groups |-> IF group = None THEN {} ELSE {group},
                        seal |-> [b EXCEPT !.signature = None]]
  BY DEF IsBundle, Sign
<1>2. [c EXCEPT !.signature = None] = [b EXCEPT !.signature = None]
  BY <1>1 DEF IsBundle
<1>3. Verified(c) /\ OneGroup(c.signature)
  BY <1>1, <1>2 DEF Verified, OneGroup
<1>4. /\ c.signature.team = TeamOf(identity) /\ c.signature.entitlements = entitlements
      /\ c.signature.groups = IF group = None THEN {} ELSE {group}
  BY <1>1
<1> HIDE DEF c
<1>5. /\ IsBundle(c, half) /\ Verified(c)
      /\ c.signature.team = TeamOf(identity) /\ c.signature.entitlements = entitlements
      /\ c.signature.groups = IF group = None THEN {} ELSE {group}
      /\ OneGroup(c.signature)
      /\ c.plist = b.plist /\ c.group = b.group /\ c.service = b.service
      /\ c.exeTeam = b.exeTeam /\ c.ext = b.ext /\ c.profile = b.profile
  BY <1>1, <1>3, <1>4
<1> QED
  BY <1>5, Zenon DEF c

(* Whatever is looked at before a bundle is begun makes its steps agree. *)
LEMMA ChosenHolds ==
  ASSUME NEW c \in Configs, ConfigAccepted(c), ProfilesAccepted(c), Chosen(c).app # None
  PROVE  /\ Chosen(c).identity # AdHoc
         /\ ValidForApp(Chosen(c).app) /\ ValidForExtension(Chosen(c).ext)
         /\ Chosen(c).group \in CommonGroups(Chosen(c).app, Chosen(c).ext)
         /\ Chosen(c).group \in Groups
<1>1. c.app \in AppProfiles /\ c.ext \in ExtProfiles /\ c.identity # AdHoc
  BY DEF Configs, ConfigAccepted, Chosen
<1>2. SharedGroup(c.app, c.ext, c.requested) # None /\ ValidForApp(c.app) /\ ValidForExtension(c.ext)
  BY <1>1 DEF ProfilesAccepted, Chosen
<1> QED
  BY <1>1, <1>2, SharedIsCommon DEF Chosen

(* The extension bundle that assemble_extension_bundle writes. *)
Written(p, g) ==
  [EmptyBundle("extension", None) EXCEPT !.plist = p, !.service = g, !.group = g]

LEMMA ExtensionWritten ==
  ASSUME NEW p, NEW g
  PROVE  /\ IsBundle(Written(p, g), "extension") /\ OneGroup(Written(p, g).signature)
         /\ Written(p, g).plist = p
         /\ Written(p, g).service = g /\ Written(p, g).group = g
<1> DEFINE d == [EmptyBundle("extension", None) EXCEPT !.plist = p]
           f == [d EXCEPT !.service = g]
<1>1. IsBundle(d, "extension") /\ d.plist = p /\ d.signature = Unsigned
  BY DEF IsBundle, EmptyBundle
<1>2. Written(p, g) = [f EXCEPT !.group = g]
  BY DEF Written
<1> HIDE DEF d
<1>3. IsBundle(f, "extension") /\ f.plist = p /\ f.signature = Unsigned /\ f.service = g
  BY <1>1 DEF IsBundle
<1> HIDE DEF f
<1>4. /\ IsBundle(Written(p, g), "extension") /\ Written(p, g).plist = p
      /\ Written(p, g).service = g /\ Written(p, g).group = g
      /\ Written(p, g).signature = Unsigned
  BY <1>2, <1>3 DEF IsBundle
<1> QED
  BY <1>4 DEF OneGroup, Unsigned

LEMMA KindsDiffer == ASSUME NEW e, IsBundle(e, "extension") PROVE e # NoExtension
  BY DEF IsBundle, NoExtension

(* An extension is put into a bundle that does not name a group yet. *)
LEMMA ExtensionPut ==
  ASSUME NEW b, IsAppBundle(b), b.group = None,
         NEW e, IsBundle(e, "extension"), OneGroup(e.signature)
  PROVE  LET c == [b EXCEPT !.ext = e] IN IsAppBundle(c) /\ c.ext = e /\ c.group = None
<1> DEFINE c == [b EXCEPT !.ext = e]
<1>1. IsBundle(b, "app") /\ OneGroup(b.signature)
  BY DEF IsAppBundle
<1>2. IsBundle(c, "app") /\ c.ext = e /\ c.group = None /\ c.signature = b.signature
  BY <1>1, ExtensionReplaced
<1> HIDE DEF c
<1>3. IsAppBundle(c)
  BY <1>1, <1>2 DEF IsAppBundle
<1> QED
  BY <1>2, <1>3 DEF c

LEMMA ConfigStays ==
  ASSUME ConfigHolds, build.step # "idle", build'.config = build.config
  PROVE  ConfigHolds'
  BY DEF ConfigHolds

(* Each step of the bundler leaves what the steps after it rely on. *)
LEMMA BundleStepKeeps == ASSUME BundleOrder, BundleNext PROVE BundleOrder'
<1>0. /\ build = [step |-> build.step, config |-> build.config] /\ build.step \in BuildSteps
      /\ target = None \/ IsAppBundle(target)
      /\ ConfigHolds /\ ExtensionHolds /\ AppHolds
  BY DEF BundleOrder
<1> USE PlaceFacts
<1>1. CASE BeginBundle
  <2>1. PICK c \in Configs : /\ ConfigAccepted(c) /\ ProfilesAccepted(c)
                             /\ build' = [step |-> "remove", config |-> Chosen(c)]
    BY <1>1 DEF BeginBundle
  <2>2. ConfigHolds'
    BY <2>1, ChosenHolds DEF ConfigHolds
  <2>3. ExtensionHolds' /\ AppHolds'
    BY <2>1 DEF ExtensionHolds, AppHolds, Passed
  <2> QED
    BY <1>0, <1>1, <2>1, <2>2, <2>3 DEF BundleOrder, BeginBundle, BuildSteps
<1>2. CASE RemoveBundle
  <2>1. build.step = "remove" /\ build' = [step |-> "copy", config |-> build.config]
    BY <1>0, <1>2 DEF RemoveBundle, AtStep, To
  <2>2. ConfigHolds'
    BY <1>0, <2>1, ConfigStays
  <2>3. ExtensionHolds' /\ AppHolds'
    BY <1>2, <2>1 DEF ExtensionHolds, AppHolds, Passed, RemoveBundle
  <2> QED
    BY <1>2, <2>1, <2>2, <2>3 DEF BundleOrder, RemoveBundle, BuildSteps
<1>3. CASE CopyExecutable
  <2>1. build.step = "copy" /\ build' = [step |-> "extPlist", config |-> build.config]
    BY <1>0, <1>3 DEF CopyExecutable, AtStep, To
  <2>2. ConfigHolds'
    BY <1>0, <2>1, ConfigStays
  <2>3. IsAppBundle(target') /\ target'.group = None
    BY <1>3, EmptyIsBundle DEF CopyExecutable, IsAppBundle, OneGroup, Unsigned
  <2>4. ExtensionHolds' /\ AppHolds'
    BY <2>1, <2>3 DEF ExtensionHolds, AppHolds, Passed
  <2> QED
    BY <2>1, <2>2, <2>3, <2>4 DEF BundleOrder, BuildSteps
<1>4. CASE WriteExtensionPlist
  <2>t. PICK true : true = TRUE
    OBVIOUS
  <2> DEFINE e == Written(true, build.config.group)
  <2>1. build.step = "extPlist" /\ build' = [step |-> "extEmbed", config |-> build.config]
    BY <1>0, <1>4 DEF WriteExtensionPlist, AtStep, To
  <2>2. ConfigHolds'
    BY <1>0, <2>1, ConfigStays
  <2>3. /\ IsBundle(e, "extension") /\ e.plist = true /\ OneGroup(e.signature)
        /\ e.service = build.config.group /\ e.group = build.config.group
    BY ExtensionWritten
  <2>4. IsAppBundle(target) /\ target.group = None
    BY <1>0, <2>1 DEF AppHolds, Passed
  <2>5. target' = [target EXCEPT !.ext = e]
    BY <1>4, <2>t DEF WriteExtensionPlist, MachService, Written
  <2> HIDE DEF e
  <2>6. target'.ext = e /\ IsAppBundle(target') /\ target'.group = None
    BY <2>3, <2>4, <2>5, ExtensionPut
  <2>7. ExtensionHolds' /\ AppHolds'
    BY <2>t, <2>1, <2>3, <2>6 DEF ExtensionHolds, AppHolds, Passed
  <2> QED
    BY <2>1, <2>2, <2>6, <2>7 DEF BundleOrder, BuildSteps
<1>5. CASE EmbedExtensionProfile
  <2> DEFINE e == [target.ext EXCEPT !.profile = build.config.ext]
  <2>1. build.step = "extEmbed" /\ build' = [step |-> "extSign", config |-> build.config]
    BY <1>0, <1>5 DEF EmbedExtensionProfile, AtStep, To
  <2>2. ConfigHolds'
    BY <1>0, <2>1, ConfigStays
  <2>3. IsAppBundle(target) /\ target.group = None
    BY <1>0, <2>1 DEF AppHolds, Passed
  <2>4. /\ IsBundle(target.ext, "extension") /\ target.ext.plist
        /\ target.ext.service = build.config.group /\ target.ext.group = build.config.group
    BY <1>0, <2>1 DEF ExtensionHolds, Passed
  <2>5. /\ IsBundle(e, "extension") /\ e.plist /\ e.signature = target.ext.signature
        /\ e.service = build.config.group /\ e.group = build.config.group
        /\ e.profile = build.config.ext /\ OneGroup(e.signature)
    BY <2>3, <2>4, ProfileEmbedded, KindsDiffer DEF IsAppBundle
  <2>6. target' = [target EXCEPT !.ext = e]
    BY <1>5 DEF EmbedExtensionProfile
  <2> HIDE DEF e
  <2>7. target'.ext = e /\ IsAppBundle(target') /\ target'.group = None
    BY <2>3, <2>5, <2>6, ExtensionPut
  <2>8. ExtensionHolds' /\ AppHolds'
    BY <2>1, <2>5, <2>7 DEF ExtensionHolds, AppHolds, Passed
  <2> QED
    BY <2>1, <2>2, <2>7, <2>8 DEF BundleOrder, BuildSteps
<1>6. CASE SignExtension
  <2> DEFINE d == [target.ext EXCEPT !.exeTeam = TeamOf(build.config.identity)]
             e == Sign(d, build.config.identity, {"Sandbox"}, build.config.group)
  <2>1. build.step = "extSign" /\ build' = [step |-> "extVerify", config |-> build.config]
    BY <1>0, <1>6 DEF SignExtension, AtStep, To
  <2>2. ConfigHolds'
    BY <1>0, <2>1, ConfigStays
  <2>3. IsAppBundle(target) /\ target.group = None
    BY <1>0, <2>1 DEF AppHolds, Passed
  <2>4. /\ IsBundle(target.ext, "extension") /\ target.ext.plist
        /\ target.ext.service = build.config.group /\ target.ext.group = build.config.group
        /\ target.ext.profile = build.config.ext
    BY <1>0, <2>1 DEF ExtensionHolds, Passed
  <2>5. /\ IsBundle(d, "extension") /\ d.plist /\ d.profile = build.config.ext
        /\ d.service = build.config.group /\ d.group = build.config.group
    BY <2>4, ExecutableSigned
  <2>6. target' = [target EXCEPT !.ext = e]
    BY <1>6 DEF SignExtension
  <2> HIDE DEF d
  <2>7. /\ IsBundle(e, "extension") /\ e.plist /\ e.profile = build.config.ext
        /\ e.service = build.config.group /\ e.group = build.config.group
        /\ e.signature.team = TeamOf(build.config.identity) /\ OneGroup(e.signature)
        /\ e.signature.groups = IF build.config.group = None THEN {} ELSE {build.config.group}
    BY <2>5, SignedIsWhole
  <2> HIDE DEF e
  <2>8. target'.ext = e /\ IsAppBundle(target') /\ target'.group = None
    BY <2>3, <2>6, <2>7, ExtensionPut
  <2>9. build.config.app # None => build.config.group # None
    BY <1>0, <2>1, NoneAssumption DEF ConfigHolds
  <2>10. ExtensionHolds' /\ AppHolds'
    BY <2>1, <2>7, <2>8, <2>9 DEF ExtensionHolds, AppHolds, Passed
  <2> QED
    BY <2>1, <2>2, <2>8, <2>10 DEF BundleOrder, BuildSteps
<1>7. CASE SignExtensionFailed
  <2>1. build.step = "extSign" /\ build' = [step |-> "extVerify", config |-> build.config]
    BY <1>0, <1>7 DEF SignExtensionFailed, AtStep, To
  <2>2. ConfigHolds'
    BY <1>0, <2>1, ConfigStays
  <2>3. target' = target /\ build.config.app = None
    BY <1>0, <1>7, <2>1 DEF SignExtensionFailed, ConfigHolds
  <2>4. ExtensionHolds' /\ AppHolds'
    BY <1>0, <2>1, <2>3 DEF ExtensionHolds, AppHolds, Passed
  <2> QED
    BY <1>0, <2>1, <2>2, <2>3, <2>4 DEF BundleOrder, BuildSteps
<1>8. CASE VerifyExtension
  <2>1. build.step = "extVerify" /\ build' = [step |-> "plist", config |-> build.config]
    BY <1>0, <1>8 DEF VerifyExtension, AtStep, To
  <2>2. ConfigHolds'
    BY <1>0, <2>1, ConfigStays
  <2>3. target' = target /\ Verified(target.ext)
    BY <1>8 DEF VerifyExtension
  <2>4. ExtensionHolds' /\ AppHolds'
    BY <1>0, <2>1, <2>3 DEF ExtensionHolds, AppHolds, Passed
  <2> QED
    BY <1>0, <2>1, <2>2, <2>3, <2>4 DEF BundleOrder, BuildSteps
<1>9. CASE WriteAppPlist
  <2>t. PICK true : true = TRUE
    OBVIOUS
  <2>1. build.step = "plist" /\ build' = [step |-> "signExe", config |-> build.config]
    BY <1>0, <1>9 DEF WriteAppPlist, AtStep, To
  <2>2. ConfigHolds'
    BY <1>0, <2>1, ConfigStays
  <2>3. IsBundle(target, "app") /\ IsAppBundle(target)
    BY <1>0, <2>1 DEF AppHolds, Passed, IsAppBundle
  <2>4. IsBundle(target.ext, "extension") /\ Verified(target.ext) /\ target.ext # NoExtension
    BY <1>0, <2>1, KindsDiffer DEF ExtensionHolds, Passed
  <2>5. target' = Named(target, true, build.config.group)
    BY <1>9, <2>t DEF WriteAppPlist, Named
  <2>6. /\ IsBundle(target', "app") /\ target'.plist = true /\ target'.group = build.config.group
        /\ target'.ext = target.ext /\ target'.signature = target.signature
    BY <2>3, <2>5, PlistWritten
  <2>7. IsAppBundle(target')
    BY <2>t, <2>3, <2>4, <2>6 DEF IsAppBundle
  <2>8. ExtensionHolds' /\ AppHolds'
    BY <1>0, <2>1, <2>6, <2>7 DEF ExtensionHolds, AppHolds, Passed
  <2> QED
    BY <2>1, <2>2, <2>7, <2>8 DEF BundleOrder, BuildSteps
<1>10. CASE SignExecutable
  <2>1. build.step = "signExe" /\ build' = [step |-> "embed", config |-> build.config]
    BY <1>0, <1>10 DEF SignExecutable, AtStep, To
  <2>2. ConfigHolds'
    BY <1>0, <2>1, ConfigStays
  <2>3. IsBundle(target, "app") /\ IsAppBundle(target)
    BY <1>0, <2>1 DEF AppHolds, Passed, IsAppBundle
  <2>4. target' = [target EXCEPT !.exeTeam = TeamOf(build.config.identity)]
    BY <1>10 DEF SignExecutable
  <2>5. /\ IsBundle(target', "app") /\ target'.exeTeam = TeamOf(build.config.identity)
        /\ target'.plist = target.plist /\ target'.group = target.group
        /\ target'.ext = target.ext /\ target'.signature = target.signature
    BY <2>3, <2>4, ExecutableSigned
  <2>6. IsAppBundle(target')
    BY <2>3, <2>5 DEF IsAppBundle
  <2>7. ExtensionHolds' /\ AppHolds'
    BY <1>0, <2>1, <2>5, <2>6 DEF ExtensionHolds, AppHolds, Passed
  <2> QED
    BY <2>1, <2>2, <2>6, <2>7 DEF BundleOrder, BuildSteps
<1>11. CASE EmbedAppProfile
  <2> DEFINE b == [target EXCEPT !.profile = build.config.app]
  <2>1. build.step = "embed" /\ build' = [step |-> "sign", config |-> build.config]
    BY <1>0, <1>11 DEF EmbedAppProfile, AtStep, To
  <2>2. ConfigHolds'
    BY <1>0, <2>1, ConfigStays
  <2>3. IsBundle(target, "app") /\ IsAppBundle(target)
    BY <1>0, <2>1 DEF AppHolds, Passed, IsAppBundle
  <2>4. /\ IsBundle(b, "app") /\ b.profile = build.config.app
        /\ b.plist = target.plist /\ b.group = target.group /\ b.exeTeam = target.exeTeam
        /\ b.ext = target.ext /\ b.signature = target.signature
    BY <2>3, ProfileEmbedded
  <2>5. target' = b
    BY <1>11 DEF EmbedAppProfile
  <2> HIDE DEF b
  <2>6. IsAppBundle(target')
    BY <2>3, <2>4, <2>5 DEF IsAppBundle
  <2>7. build.config.app # None =>
          /\ TeamsMatch(TeamOf(build.config.identity), ProfileTeam(build.config.app))
          /\ TeamsMatch(TeamOf(build.config.identity), ProfileTeam(build.config.ext))
    BY <1>0, <1>11, <2>1 DEF EmbedAppProfile, AppHolds, Passed
  <2>8. ExtensionHolds' /\ AppHolds'
    BY <1>0, <2>1, <2>4, <2>5, <2>6, <2>7 DEF ExtensionHolds, AppHolds, Passed
  <2> QED
    BY <2>1, <2>2, <2>6, <2>8 DEF BundleOrder, BuildSteps
<1>12. CASE SignApp
  <2> DEFINE e == IF build.config.app = None THEN {} ELSE {"Install"}
  <2>1. build.step = "sign" /\ build' = [step |-> "verify", config |-> build.config]
    BY <1>0, <1>12 DEF SignApp, AtStep, To
  <2>2. ConfigHolds'
    BY <1>0, <2>1, ConfigStays
  <2>3. IsBundle(target, "app") /\ IsAppBundle(target)
    BY <1>0, <2>1 DEF AppHolds, Passed, IsAppBundle
  <2>4. target' = Sign(target, build.config.identity, e, build.config.group)
    BY <1>12 DEF SignApp
  <2>5. build.config.app # None => e = {"Install"}
    OBVIOUS
  <2> HIDE DEF e
  <2>6. /\ IsBundle(target', "app") /\ target'.profile = target.profile
        /\ target'.plist = target.plist /\ target'.group = target.group
        /\ target'.exeTeam = target.exeTeam /\ target'.ext = target.ext
        /\ target'.signature.team = TeamOf(build.config.identity)
        /\ target'.signature.entitlements = e /\ OneGroup(target'.signature)
        /\ target'.signature.groups =
             IF build.config.group = None THEN {} ELSE {build.config.group}
    BY <2>3, <2>4, SignedIsWhole
  <2>7. IsAppBundle(target')
    BY <2>3, <2>6 DEF IsAppBundle
  <2>8. build.config.app # None => build.config.group # None
    BY <1>0, <2>1, NoneAssumption DEF ConfigHolds
  <2>9. ExtensionHolds' /\ AppHolds'
    BY <1>0, <2>1, <2>5, <2>6, <2>7, <2>8 DEF ExtensionHolds, AppHolds, Passed
  <2> QED
    BY <2>1, <2>2, <2>7, <2>9 DEF BundleOrder, BuildSteps
<1>13. CASE SignAppFailed
  <2>1. build.step = "sign" /\ build' = [step |-> "verify", config |-> build.config]
    BY <1>0, <1>13 DEF SignAppFailed, AtStep, To
  <2>2. ConfigHolds'
    BY <1>0, <2>1, ConfigStays
  <2>3. target' = target /\ build.config.app = None
    BY <1>0, <1>13, <2>1 DEF SignAppFailed, ConfigHolds
  <2>4. ExtensionHolds' /\ AppHolds'
    BY <1>0, <2>1, <2>3 DEF ExtensionHolds, AppHolds, Passed
  <2> QED
    BY <1>0, <2>1, <2>2, <2>3, <2>4 DEF BundleOrder, BuildSteps
<1>14. CASE VerifyApp
  <2>1. build.step = "verify" /\ build' = [step |-> "done", config |-> build.config]
    BY <1>0, <1>14 DEF VerifyApp, AtStep, To
  <2>2. ConfigHolds'
    BY <1>0, <2>1, ConfigStays
  <2>3. target' = target /\ Verified(target)
    BY <1>14 DEF VerifyApp
  <2>4. ExtensionHolds' /\ AppHolds'
    BY <1>0, <2>1, <2>3 DEF ExtensionHolds, AppHolds, Passed
  <2> QED
    BY <1>0, <2>1, <2>2, <2>3, <2>4 DEF BundleOrder, BuildSteps
<1>15. CASE FailBundle
  <2>1. build' = [step |-> "idle", config |-> None] /\ target' = target
    BY <1>15 DEF FailBundle
  <2>2. ConfigHolds' /\ ExtensionHolds' /\ AppHolds'
    BY <2>1 DEF ConfigHolds, ExtensionHolds, AppHolds, Passed
  <2> QED
    BY <1>0, <2>1, <2>2 DEF BundleOrder, BuildSteps
<1> QED
  BY <1>1, <1>2, <1>3, <1>4, <1>5, <1>6, <1>7, <1>8, <1>9, <1>10, <1>11, <1>12, <1>13,
     <1>14, <1>15
  DEF BundleNext

(* What bundle_app completes with profiles passes the readiness check. *)
LEMMA BuiltIsCapable == ASSUME BundleOrder PROVE BuiltIsReady
<1> USE PlaceFacts
<1> SUFFICES ASSUME build.step = "done", build.config.app # None
             PROVE  Capable(target, "Applications")
  BY DEF BuiltIsReady
<1>1. ConfigHolds /\ ExtensionHolds /\ AppHolds
  BY DEF BundleOrder
<1>2. /\ ValidForApp(build.config.app) /\ ValidForExtension(build.config.ext)
      /\ build.config.group \in CommonGroups(build.config.app, build.config.ext)
      /\ build.config.group # None
  BY <1>1, NoneAssumption DEF ConfigHolds
<1>3. /\ target.ext # NoExtension /\ target.ext.plist
      /\ target.ext.service = build.config.group /\ target.ext.group = build.config.group
      /\ target.ext.profile = build.config.ext
      /\ target.ext.signature.team = TeamOf(build.config.identity)
      /\ target.ext.signature.groups = {build.config.group}
  BY <1>1, KindsDiffer DEF ExtensionHolds, Passed
<1>4. /\ target.group = build.config.group /\ target.profile = build.config.app
      /\ target.signature.team = TeamOf(build.config.identity)
      /\ target.signature.entitlements = {"Install"}
      /\ target.signature.groups = {build.config.group} /\ Verified(target)
      /\ TeamsMatch(TeamOf(build.config.identity), ProfileTeam(build.config.app))
      /\ TeamsMatch(TeamOf(build.config.identity), ProfileTeam(build.config.ext))
  BY <1>1 DEF AppHolds, Passed
<1>5. GroupsAgree(target)
  BY <1>2, <1>3, <1>4 DEF GroupsAgree, HasActivationMetadata, SharedGroup
<1>6. TeamsAgree(target)
  BY <1>3, <1>4 DEF TeamsAgree, TeamsMatch
<1> QED
  BY <1>2, <1>3, <1>4, <1>5, <1>6 DEF Capable

(* What passes the readiness check is whole, and its halves are of one group. *)
LEMMA CapableIsOfOneGroup ==
  ASSUME NEW b, IsAppBundle(b), NEW from, Capable(b, from)
  PROVE  /\ from = "Applications" /\ b.plist /\ b.ext # NoExtension /\ b.ext.plist
         /\ Verified(b) /\ Verified(b.ext)
         /\ IsBundle(b.ext, "extension") /\ b.group = b.ext.group
         /\ b.signature.groups = b.ext.signature.groups
         /\ b.signature.groups \subseteq CommonGroups(b.profile, b.ext.profile)
<1>1. /\ from = "Applications" /\ b.ext # NoExtension /\ Verified(b) /\ GroupsAgree(b)
  BY DEF Capable
<1>2. /\ b.ext.plist /\ b.ext.group # None /\ b.group = b.ext.group
      /\ b.ext.group \in b.signature.groups /\ b.ext.group \in b.ext.signature.groups
      /\ b.ext.group \in CommonGroups(b.profile, b.ext.profile)
  BY <1>1 DEF GroupsAgree, HasActivationMetadata, SharedGroup
<1>3. /\ b.plist /\ Verified(b.ext) /\ IsBundle(b.ext, "extension")
      /\ OneGroup(b.signature) /\ OneGroup(b.ext.signature)
  BY <1>1, <1>2 DEF IsAppBundle
<1>4. b.signature.groups = {b.ext.group} /\ b.ext.signature.groups = {b.ext.group}
  BY <1>2, <1>3 DEF OneGroup
<1> QED
  BY <1>1, <1>2, <1>3, <1>4

LEMMA KindOfBundle == ASSUME NEW b, NEW half, IsBundle(b, half) PROVE b.kind = half
  BY DEF IsBundle

(* What the bundler leaves behind is an app bundle or nothing. *)
LEMMA TargetIsApp == ASSUME BundleOrder PROVE target = None \/ target.kind = "app"
  BY KindOfBundle DEF BundleOrder, IsAppBundle

LEMMA InitInstall == InstallInit => InstallOrder
  BY PlaceFacts
  DEF InstallInit, BundleInit, InstallOrder, InstallTypeOK, BundleOrder, BuildSteps, Statuses,
      NotRunning, ConfigHolds, ExtensionHolds, AppHolds, Passed, AppAgrees, Hears, Pending

(* No step of the bundler, of the user or of macOS breaks the invariant. *)
LEMMA InstallStepKeeps == ASSUME InstallOrder, InstallNext PROVE InstallOrder'
<1>0. /\ InstallTypeOK /\ BundleOrder /\ AppAgrees
      /\ installed = None \/ IsAppBundle(installed)
  BY DEF InstallOrder
<1>1. CASE BundleNext /\ ~Running /\ UNCHANGED installVars
  <2>1. BundleOrder'
    BY <1>0, <1>1, BundleStepKeeps
  <2>2. build'.step \in BuildSteps /\ (target' = None \/ target'.kind = "app")
    BY <2>1, KindOfBundle DEF BundleOrder, IsAppBundle
  <2>3. InstallTypeOK'
    BY <1>0, <1>1, <2>2 DEF InstallTypeOK, installVars
  <2>4. AppAgrees'
    BY <1>0, <1>1 DEF AppAgrees, installVars, Hears, Pending
  <2> QED
    BY <1>0, <1>1, <2>1, <2>3, <2>4 DEF InstallOrder, installVars
<1>2. ASSUME BundleOrder', installed' = None \/ IsAppBundle(installed'), AppAgrees',
             app'.from \in {"nowhere", "Applications", "target"}, app'.capable \in BOOLEAN,
             app'.status \in Statuses,
             \A e \in {request', active', afterReboot'} : e = None \/ e.kind = "extension"
      PROVE  InstallOrder'
  <2>1. build'.step \in BuildSteps /\ (target' = None \/ target'.kind = "app")
    BY <1>2, KindOfBundle DEF BundleOrder, IsAppBundle
  <2>2. installed' = None \/ installed'.kind = "app"
    BY <1>2, KindOfBundle DEF IsAppBundle
  <2> QED
    BY <1>2, <2>1, <2>2 DEF InstallOrder, InstallTypeOK
<1>3. ASSUME UNCHANGED buildVars PROVE BundleOrder'
  BY <1>0, <1>3
  DEF buildVars, BundleOrder, ConfigHolds, ExtensionHolds, AppHolds, Passed
<1>4. CASE CopyToApplications
  <2>1. IsAppBundle(installed')
    BY <1>0, <1>4 DEF CopyToApplications, BundleOrder
  <2>2. AppAgrees'
    BY <1>0, <1>4 DEF CopyToApplications, AppAgrees, Running, Hears, Pending
  <2> QED
    BY <1>0, <1>2, <1>3, <1>4, <2>1, <2>2 DEF CopyToApplications, InstallTypeOK
<1>5. CASE Graft
  <2> DEFINE g == [target EXCEPT !.ext = installed.ext]
             bare == [target EXCEPT !.ext = installed.ext, !.signature = None]
             s == [target.signature EXCEPT !.seal = bare]
  <2>1. build.step = "done" /\ IsAppBundle(target) /\ target.ext # NoExtension
    BY <1>0, <1>5, PlaceFacts, KindsDiffer
    DEF Graft, AtStep, BundleOrder, AppHolds, ExtensionHolds, Passed
  <2>2. /\ IsBundle(installed.ext, "extension") /\ OneGroup(installed.ext.signature)
        /\ Verified(installed.ext) /\ installed.ext # NoExtension
    BY <1>0, <1>5 DEF Graft, IsAppBundle
  <2>3. /\ IsBundle(g, "app") /\ g.ext = installed.ext /\ g.plist = target.plist
        /\ g.group = target.group /\ g.signature = target.signature
    BY <2>1, ExtensionReplaced DEF IsAppBundle
  <2>4. target' = [g EXCEPT !.signature = s]
    BY <1>5, <2>3 DEF Graft
  <2>5. s.groups = target.signature.groups
    OBVIOUS
  <2> HIDE DEF g, s
  <2>6. /\ IsBundle(target', "app") /\ target'.ext = installed.ext
        /\ target'.plist = target.plist /\ target'.group = target.group
        /\ target'.signature = s
    BY <2>3, <2>4 DEF IsBundle
  <2>7. IsAppBundle(target')
    BY <2>1, <2>2, <2>5, <2>6 DEF IsAppBundle, OneGroup
  <2>8. build' = [step |-> "idle", config |-> None]
    BY <1>5 DEF Graft
  <2>9. BundleOrder'
    BY <2>7, <2>8, PlaceFacts
    DEF BundleOrder, BuildSteps, ConfigHolds, ExtensionHolds, AppHolds, Passed
  <2>10. AppAgrees'
    BY <1>0, <1>5 DEF Graft, installVars, AppAgrees, Hears, Pending
  <2> QED
    BY <1>0, <1>2, <1>5, <2>9, <2>10 DEF Graft, installVars, InstallTypeOK
<1>6. ASSUME NEW from \in {"Applications", "target"}, Launch(from) PROVE InstallOrder'
  <2> DEFINE b == IF from = "Applications" THEN installed ELSE target
             c == Capable(b, from)
  <2>1. app' = [from |-> from, capable |-> c, status |-> "Idle"] /\ b # None
    BY <1>6 DEF Launch
  <2>2. c => from = "Applications" /\ installed # None /\ Capable(installed, from)
    BY <2>1 DEF Capable
  <2>3. c \in BOOLEAN
    BY DEF Capable
  <2> HIDE DEF c
  <2>4. AppAgrees'
    BY <1>6, <2>1, <2>2 DEF Launch, AppAgrees, Hears, Pending
  <2> QED
    BY <1>0, <1>2, <1>3, <1>6, <2>1, <2>3, <2>4 DEF Launch, InstallTypeOK, Statuses
<1>7. CASE Quit
  <2>1. AppAgrees'
    BY <1>7 DEF Quit, NotRunning, AppAgrees, Hears, Pending
  <2> QED
    BY <1>0, <1>2, <1>3, <1>7, <2>1 DEF Quit, NotRunning, InstallTypeOK, Statuses
<1>8. CASE Activate
  <2>1. /\ app.capable /\ installed # None /\ Capable(installed, "Applications")
        /\ app.from = "Applications"
    BY <1>0, <1>8 DEF Activate, AppAgrees, Capable
  <2>2. /\ app' = [from |-> app.from, capable |-> app.capable, status |-> "Requesting"]
        /\ request' = installed.ext
    BY <1>0, <1>8, <2>1 DEF Activate, AppAgrees, Bundle
  <2>3. request'.kind = "extension"
    BY <1>0, <2>1, <2>2, CapableIsOfOneGroup, KindOfBundle
  <2>4. AppAgrees'
    BY <1>0, <1>8, <2>1, <2>2 DEF Activate, AppAgrees, Hears, Pending
  <2> QED
    BY <1>0, <1>2, <1>3, <1>8, <2>2, <2>3, <2>4 DEF Activate, InstallTypeOK, Statuses
<1>9. CASE Reboot
  <2>1. AppAgrees'
    BY <1>0, <1>9 DEF Reboot, Running, AppAgrees, Hears, Pending
  <2> QED
    BY <1>0, <1>2, <1>3, <1>9, <2>1 DEF Reboot, InstallTypeOK
<1>10. ASSUME NEW status \in Statuses, app' = [app EXCEPT !.status = status]
       PROVE  app' = [from |-> app.from, capable |-> app.capable, status |-> status]
  BY <1>0, <1>10 DEF AppAgrees
<1>11. CASE NeedApproval
  <2>1. /\ app' = [from |-> app.from, capable |-> app.capable, status |-> "NeedsApproval"]
        /\ app.status = "Requesting"
    BY <1>10, <1>11 DEF NeedApproval, Statuses
  <2>2. AppAgrees'
    BY <1>0, <1>11, <2>1 DEF NeedApproval, AppAgrees, Hears, Pending
  <2> QED
    BY <1>0, <1>2, <1>3, <1>11, <2>1, <2>2 DEF NeedApproval, InstallTypeOK, Statuses
<1>12. ASSUME NEW status \in {"Activated", "WillCompleteAfterReboot", "Failed"}, Tell(status)
       PROVE  /\ app' = [from |-> app.from, capable |-> app.capable,
                         status |-> IF Hears THEN status ELSE app.status]
              /\ app'.status \in Statuses
  BY <1>0, <1>10, <1>12 DEF Tell, Statuses, AppAgrees, InstallTypeOK
<1>13. CASE Finish
  <2>1. CASE Tell("Activated") /\ active' = request /\ UNCHANGED afterReboot
    <3>1. AppAgrees'
      BY <1>0, <1>12, <1>13, <2>1 DEF Finish, AppAgrees, Hears, Pending
    <3> QED
      BY <1>0, <1>2, <1>3, <1>12, <1>13, <2>1, <3>1 DEF Finish, InstallTypeOK
  <2>2. CASE Tell("WillCompleteAfterReboot") /\ afterReboot' = request /\ UNCHANGED active
    <3>1. AppAgrees'
      BY <1>0, <1>12, <1>13, <2>2 DEF Finish, AppAgrees, Hears, Pending
    <3> QED
      BY <1>0, <1>2, <1>3, <1>12, <1>13, <2>2, <3>1 DEF Finish, InstallTypeOK
  <2> QED
    BY <1>13, <2>1, <2>2 DEF Finish
<1>14. CASE Fail
  <2>1. Tell("Failed")
    BY <1>14 DEF Fail, Tell, FailureOfPanic
  <2>2. AppAgrees'
    BY <1>0, <1>12, <1>14, <2>1 DEF Fail, AppAgrees, Hears, Pending
  <2> QED
    BY <1>0, <1>2, <1>3, <1>12, <1>14, <2>1, <2>2 DEF Fail, InstallTypeOK
<1> QED
  BY <1>1, <1>4, <1>5, <1>6, <1>7, <1>8, <1>9, <1>11, <1>13, <1>14
  DEF InstallNext, User, System

LEMMA InstallStutter == ASSUME InstallOrder, UNCHANGED all PROVE InstallOrder'
  BY DEF InstallOrder, all, buildVars, installVars, InstallTypeOK, BundleOrder, ConfigHolds,
         ExtensionHolds, AppHolds, Passed, AppAgrees, Hears, Pending

LEMMA InstallInvariance == InstallSpec => []InstallOrder
<1>1. InstallOrder /\ [InstallNext]_all => InstallOrder'
  BY InstallStepKeeps, InstallStutter
<1> QED
  BY <1>1, InitInstall, PTL DEF InstallSpec

LEMMA OrderGivesInv == ASSUME InstallOrder PROVE InstallInv
<1>1. InstallTypeOK /\ BundleOrder /\ AppAgrees /\ (installed = None \/ IsAppBundle(installed))
  BY DEF InstallOrder
<1>2. BuiltIsReady
  BY <1>1, BuiltIsCapable
<1>3. CapableIsWhole
  <2> SUFFICES ASSUME app.capable
               PROVE  /\ Verified(installed) /\ installed.plist
                      /\ Verified(installed.ext) /\ installed.ext.plist
                      /\ installed.signature.groups = installed.ext.signature.groups
                      /\ installed.signature.groups
                           \subseteq CommonGroups(installed.profile, installed.ext.profile)
    BY DEF CapableIsWhole
  <2>1. IsAppBundle(installed) /\ Capable(installed, app.from)
    BY <1>1 DEF AppAgrees
  <2> QED
    BY <2>1, CapableIsOfOneGroup
<1> QED
  BY <1>1, <1>2, <1>3 DEF InstallInv

LEMMA OrderSharesEndpoint == ASSUME InstallOrder PROVE SharesEndpoint
<1> SUFFICES ASSUME app.status = "Activated" PROVE Endpoint(Bundle) = Endpoint(active)
  BY DEF SharesEndpoint
<1>1. /\ app.from = "Applications" /\ active = installed.ext
      /\ IsAppBundle(installed) /\ Capable(installed, app.from)
  BY DEF InstallOrder, AppAgrees
<1>2. installed.group = installed.ext.group
  BY <1>1, CapableIsOfOneGroup
<1> QED
  BY <1>1, <1>2 DEF Bundle, Endpoint

(* What bundle_app completes passes extension_capability, and what passes it *)
(* is whole and of one group, for any identities, profiles and groups.       *)
THEOREM InstallInvHolds == InstallSpec => []InstallInv
  BY InstallInvariance, OrderGivesInv, PTL

(* When the app shows that its extension is active, both look for the frames *)
(* in the same place (app_group.rs), whatever was built, grafted, replaced   *)
(* and asked for before.                                                     *)
THEOREM SharesEndpointHolds == InstallSpec => []SharesEndpoint
  BY InstallInvariance, OrderSharesEndpoint, PTL
=============================================================================
