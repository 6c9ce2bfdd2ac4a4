----------------------------- MODULE StoreProofs -----------------------------
(* What holds of the gateway's stores for any ids, writers and bounds: the    *)
(* Key Vault clients, the home directories, the alias file, the debug capture *)
(* and the response cache.                                                    *)
EXTENDS KeyVaultClients, HomeRegistry, ModelAliases, DebugRecorder,
        ResponseCache, SequenceLemmas

-----------------------------------------------------------------------------
(* Key Vault clients.  Whoever is done uses the client that is stored.        *)

ClientInv ==
    /\ stored \in Caller \cup {NoClient}
    /\ holds \in [Caller -> Caller \cup {NoClient}]
    /\ resolving \in [Caller -> {"start", "missed", "done", "failed"}]
    /\ \A c \in Caller : resolving[c] = "done" => holds[c] = stored /\ stored # NoClient

(* All callers of one Key Vault use one client (keyVaultClientFor).           *)
THEOREM SharedClient == VaultInit /\ [][VaultNext]_vaultVars => []OneClientPerVault
<1>1. VaultInit => ClientInv
  BY DEF VaultInit, ClientInv
<1>2. ClientInv /\ [VaultNext]_vaultVars => ClientInv'
  <2> SUFFICES ASSUME ClientInv, [VaultNext]_vaultVars
               PROVE  ClientInv'
    OBVIOUS
  <2> USE VaultAssumption DEF ClientInv
  <2>1. ASSUME NEW c \in Caller, LoadClient(c)
        PROVE  ClientInv'
    BY <2>1 DEF LoadClient
  <2>2. ASSUME NEW c \in Caller, MakeClient(c)
        PROVE  ClientInv'
    <3>1. CASE /\ stored' = IF stored = NoClient THEN c ELSE stored
               /\ holds' = [holds EXCEPT ![c] = stored']
               /\ resolving' = [resolving EXCEPT ![c] = "done"]
      <4>1. stored' \in Caller /\ (stored # NoClient => stored' = stored)
        BY <3>1
      <4> QED
        BY <3>1, <4>1
    <3>2. CASE resolving' = [resolving EXCEPT ![c] = "failed"] /\ UNCHANGED <<stored, holds>>
      BY <3>2
    <3> QED
      BY <2>2, <3>1, <3>2 DEF MakeClient
  <2>3. CASE UNCHANGED vaultVars
    BY <2>3 DEF vaultVars
  <2> QED
    BY <2>1, <2>2, <2>3 DEF VaultNext
<1>3. ClientInv => OneClientPerVault
  BY DEF ClientInv, OneClientPerVault
<1> QED
  BY <1>1, <1>2, <1>3, PTL

-----------------------------------------------------------------------------
(* Home directories.  Without a failing save the file is the index, a home in *)
(* use is in it, two ids never share a home, and no home comes back after it  *)
(* was deleted with its account.                                              *)

HomeTypes ==
    /\ given \in Nat /\ homeFaults \in Nat
    /\ homeIndex \in [HomeId -> 0..given]
    /\ saved \in [HomeId -> 0..given]
    /\ inUse \in [HomeId -> 0..given]
    /\ deleted \subseteq 1..given

HomesAgree ==
    homeFaults = 0 =>
        /\ saved = homeIndex
        /\ \A i \in HomeId : inUse[i] # 0 => homeIndex[i] = inUse[i]
        /\ \A i \in HomeId : homeIndex[i] \notin deleted
        /\ \A i, j \in HomeId : homeIndex[i] = homeIndex[j] /\ homeIndex[i] # 0 => i = j

HomeInv == HomeTypes /\ HomesAgree

(* An account keeps its home across restarts, and nobody is given the home of  *)
(* a deleted one (HomeRegistry).                                               *)
THEOREM HomesAreKept == HomeInit /\ [][HomeNext]_homeVars => []HomesSurviveRestart
<1>1. HomeInit => HomeInv
  BY DEF HomeInit, HomeInv, HomeTypes, HomesAgree
<1>2. HomeInv /\ [HomeNext]_homeVars => HomeInv'
  <2> SUFFICES ASSUME HomeInv, [HomeNext]_homeVars
               PROVE  HomeInv'
    OBVIOUS
  <2> USE DEF HomeInv
  <2>1. CASE HomeRestart
    <3>1. HomeTypes'
      BY <2>1 DEF HomeRestart, HomeTypes
    <3>2. HomesAgree'
      BY <2>1 DEF HomeRestart, HomeTypes, HomesAgree
    <3> QED
      BY <3>1, <3>2
  <2>2. ASSUME NEW i \in HomeId, NEW ok \in BOOLEAN, Resolve(i, ok)
        PROVE  HomeInv'
    <3>1. CASE homeIndex[i] # 0
      <4>1. /\ inUse' \in {inUse, [inUse EXCEPT ![i] = homeIndex[i]]}
            /\ UNCHANGED <<homeIndex, saved, given, homeFaults, deleted>>
        BY <2>2, <3>1 DEF Resolve
      <4> QED
        BY <4>1 DEF HomeTypes, HomesAgree
    <3>2. CASE homeIndex[i] = 0
      <4>1. /\ given' = given + 1 /\ deleted' = deleted
            /\ homeIndex' = [homeIndex EXCEPT ![i] = given + 1]
            /\ IF ok THEN saved' = homeIndex' /\ homeFaults' = homeFaults
                     ELSE homeFaults' = homeFaults + 1 /\ saved' = saved
            /\ \/ inUse' = inUse
               \/ ok /\ inUse' = [inUse EXCEPT ![i] = given + 1]
        BY <2>2, <3>2 DEF Resolve, Save, HomeTypes
      <4>2. HomeTypes'
        BY <4>1 DEF HomeTypes
      <4>3. ASSUME homeFaults' = 0
            PROVE  ok /\ homeFaults = 0
        BY <4>1, <4>3 DEF HomeTypes
      <4>4. ASSUME homeFaults' = 0
            PROVE  /\ saved' = homeIndex'
                   /\ \A j \in HomeId : homeIndex'[j] = IF j = i THEN given + 1 ELSE homeIndex[j]
                   /\ \A j \in HomeId : inUse'[j] # 0 => homeIndex'[j] = inUse'[j]
        <5>1. CASE inUse' = inUse
          BY <3>2, <4>1, <4>3, <4>4, <5>1 DEF HomeTypes, HomesAgree
        <5>2. CASE inUse' = [inUse EXCEPT ![i] = given + 1]
          BY <4>1, <4>3, <4>4, <5>2 DEF HomeTypes, HomesAgree
        <5> QED
          BY <4>1, <5>1, <5>2
      <4>5. HomesAgree'
        BY <4>1, <4>3, <4>4 DEF HomeTypes, HomesAgree
      <4> QED
        BY <4>2, <4>5
    <3> QED
      BY <3>1, <3>2
  <2>3. ASSUME NEW i \in HomeId, NEW ok \in BOOLEAN, ForgetHome(i, ok)
        PROVE  HomeInv'
    <3>1. /\ inUse[i] # 0 /\ inUse' = [inUse EXCEPT ![i] = 0]
          /\ deleted' = deleted \cup {inUse[i]} /\ given' = given
      BY <2>3 DEF ForgetHome
    <3>0. inUse[i] \in 1..given
      BY <3>1 DEF HomeTypes
    <3>4. deleted' \subseteq 1..given
      BY <3>0, <3>1 DEF HomeTypes
    <3>2. CASE homeIndex[i] # 0
      <4>1. /\ homeIndex' = [homeIndex EXCEPT ![i] = 0]
            /\ IF ok THEN saved' = homeIndex' /\ homeFaults' = homeFaults
                     ELSE homeFaults' = homeFaults + 1 /\ saved' = saved
        BY <2>3, <3>2 DEF ForgetHome, Save
      <4>2. HomeTypes'
        BY <3>1, <3>4, <4>1 DEF HomeTypes
      <4>3. ASSUME homeFaults' = 0
            PROVE  ok /\ homeFaults = 0
        BY <4>1, <4>3 DEF HomeTypes
      <4>4. HomesAgree'
        BY <3>0, <3>1, <4>1, <4>3 DEF HomeTypes, HomesAgree
      <4> QED
        BY <4>2, <4>4
    <3>3. CASE homeIndex[i] = 0
      <4>1. UNCHANGED <<homeIndex, saved, homeFaults>>
        BY <2>3, <3>3 DEF ForgetHome
      <4>2. homeFaults # 0
        BY <3>1, <3>3 DEF HomesAgree
      <4>3. HomeTypes'
        BY <3>1, <3>4, <4>1 DEF HomeTypes
      <4> QED
        BY <4>1, <4>2, <4>3 DEF HomesAgree
    <3> QED
      BY <3>2, <3>3
  <2>4. CASE UNCHANGED homeVars
    BY <2>4 DEF homeVars, HomeTypes, HomesAgree
  <2> QED
    BY <2>1, <2>2, <2>3, <2>4 DEF HomeNext
<1>3. HomeInv => HomesSurviveRestart
  BY DEF HomeInv, HomeTypes, HomesAgree, HomesSurviveRestart
<1> QED
  BY <1>1, <1>2, <1>3, PTL

-----------------------------------------------------------------------------
(* The alias file.  While updates come one at a time and none fails, the file *)
(* being written is not the one that is in force, and the one in force holds  *)
(* what the update that made it put.                                          *)

AliasTypes ==
    /\ at \in [AliasWriter -> {"start", "opened", "written", "renamed", "refused", "done"}]
    /\ inode \in Seq(AliasWriter \cup {"empty", "torn"})
    /\ path \in 0..Len(inode) /\ tmp \in 0..Len(inode)
    /\ fd \in [AliasWriter -> 0..Len(inode)]
    /\ \A w \in AliasWriter : at[w] = "opened" => fd[w] # 0

Undisturbed ==
    /\ \A v, w \in Writing : v = w
    /\ \A w \in AliasWriter : at[w] # "refused"
    /\ tmp # 0 => tmp # path
    /\ \A w \in AliasWriter : at[w] \in {"opened", "written"} => tmp # 0 /\ fd[w] = tmp
    /\ \A w \in AliasWriter : at[w] = "opened" => inode[tmp] = "empty"
    /\ \A w \in AliasWriter : at[w] = "written" => inode[tmp] = w
    /\ \A w \in AliasWriter : at[w] = "renamed" => path # 0 /\ inode[path] = w
    /\ (\A w \in AliasWriter : at[w] # "renamed") =>
          IF path = 0 THEN updated = ConfiguredAliases
          ELSE inode[path] \in AliasWriter /\ Update[inode[path]] = updated
    /\ memory \in {updated, ConfiguredAliases \cup updated}

AliasInv == AliasTypes /\ (~shared => Undisturbed)

Contents == AliasWriter \cup {"empty", "torn"}

(* Every step of an update, and a restart, keeps the invariant: only overlapping *)
(* updates and failing writes could break it, and both set shared (ModelAliases). *)
LEMMA AliasStep ==
    ASSUME AliasInv, [AliasNext]_aliasVars
    PROVE  AliasInv'
<1> USE AliasAssumption DEF AliasInv
<1>0. inode \in Seq(Contents) /\ Len(inode) \in Nat
  BY DEF AliasTypes, Contents
<1>1. ASSUME NEW w \in AliasWriter, OpenTmp(w)
      PROVE  AliasInv'
  <2>1. /\ at[w] = "start" /\ at' = [at EXCEPT ![w] = "opened"]
        /\ inode' = IF tmp = 0 THEN Append(inode, "empty") ELSE [inode EXCEPT ![tmp] = "empty"]
        /\ tmp' = (IF tmp = 0 THEN Len(inode) + 1 ELSE tmp)
        /\ fd' = [fd EXCEPT ![w] = tmp']
        /\ shared' = (shared \/ Writing # {})
        /\ UNCHANGED <<path, memory, restarts, updated>>
    BY <1>1 DEF OpenTmp, Step
  <2>2. /\ inode' \in Seq(Contents) /\ Len(inode) <= Len(inode')
        /\ tmp' \in 1..Len(inode') /\ inode'[tmp'] = "empty"
        /\ \A i \in 1..Len(inode) : i # tmp => inode'[i] = inode[i]
    <3>1. CASE tmp = 0
      <4>1. "empty" \in Contents /\ inode' = Append(inode, "empty") /\ tmp' = Len(inode) + 1
        BY <2>1, <3>1 DEF Contents
      <4>2. /\ Append(inode, "empty") \in Seq(Contents)
            /\ Len(Append(inode, "empty")) = Len(inode) + 1
            /\ \A i \in 1..Len(inode) : Append(inode, "empty")[i] = inode[i]
            /\ Append(inode, "empty")[Len(inode) + 1] = "empty"
        BY <1>0, <4>1, AppendProperties
      <4> QED
        BY <1>0, <4>1, <4>2
    <3>2. CASE tmp # 0
      <4>1. tmp \in 1..Len(inode) /\ "empty" \in Contents
        BY <1>0, <3>2 DEF AliasTypes, Contents
      <4> QED
        BY <1>0, <2>1, <3>2, <4>1, ExceptSeq
    <3> QED
      BY <3>1, <3>2
  <2>3. AliasTypes'
    <3>1. Len(inode') \in Nat
      BY <2>2
    <3> QED
      BY <1>0, <2>1, <2>2, <3>1 DEF AliasTypes, Contents
  <2>4. ASSUME ~shared'
        PROVE  Undisturbed'
    <3>1. Undisturbed /\ Writing = {} /\ Writing' = {w}
      BY <2>1, <2>4 DEF Writing, AliasTypes
    <3>2. path # 0 => path # tmp' /\ inode'[path] = inode[path]
      BY <1>0, <2>1, <2>2, <3>1 DEF Undisturbed, AliasTypes
    <3>3. \A v \in AliasWriter \ {w} : at'[v] = at[v] /\ at[v] \notin {"opened", "written", "renamed"}
      <4>1. \A v \in AliasWriter \ {w} : at'[v] = at[v]
        BY <2>1 DEF AliasTypes
      <4>2. \A v \in AliasWriter : at[v] \notin {"opened", "written", "renamed"}
        BY <3>1 DEF Writing
      <4> QED
        BY <4>1, <4>2
    <3>4. at'[w] = "opened" /\ fd'[w] = tmp' /\ tmp' # 0
      BY <2>1, <2>2 DEF AliasTypes
    <3>5. \A v \in AliasWriter : at[v] # "renamed"
      BY <2>1, <3>3
    <3>6. /\ path' = path /\ memory' = memory /\ updated' = updated
          /\ \A v \in AliasWriter : at'[v] \notin {"written", "renamed", "refused"}
      BY <2>1, <3>1, <3>3, <3>4 DEF Undisturbed
    <3>7. IF path = 0 THEN updated = ConfiguredAliases
          ELSE inode'[path] \in AliasWriter /\ Update[inode'[path]] = updated
      BY <3>1, <3>2, <3>5 DEF Undisturbed
    <3>8. /\ \A v, u \in Writing' : v = u
          /\ tmp' # 0 => tmp' # path'
          /\ \A v \in AliasWriter : at'[v] \in {"opened", "written"} => v = w
      BY <3>1, <3>2, <3>3, <3>4, <3>6
    <3> QED
      BY <2>2, <3>1, <3>4, <3>6, <3>7, <3>8 DEF Undisturbed
  <2> QED
    BY <2>3, <2>4
<1>2. ASSUME NEW w \in AliasWriter, WriteTmp(w)
      PROVE  AliasInv'
  <2>1. /\ at[w] = "opened" /\ at' = [at EXCEPT ![w] = "written"]
        /\ UNCHANGED <<path, tmp, fd, memory, restarts, updated, shared>>
    BY <1>2 DEF WriteTmp, Step
  <2>2. inode' = [inode EXCEPT ![fd[w]] = IF @ \in LongText /\ w \notin LongText THEN "torn" ELSE w]
    BY <1>2 DEF WriteTmp
  <2>3. /\ inode' \in Seq(Contents) /\ Len(inode') = Len(inode)
        /\ \A i \in 1..Len(inode) : i # fd[w] => inode'[i] = inode[i]
        /\ fd[w] \in 1..Len(inode) /\ inode[fd[w]] = "empty" => inode'[fd[w]] = w
    <3>1. fd[w] \in 1..Len(inode)
      BY <1>0, <2>1 DEF AliasTypes
    <3>2. PICK c \in {w, "torn"} : /\ inode' = [inode EXCEPT ![fd[w]] = c]
                                   /\ inode[fd[w]] = "empty" => c = w
      <4> DEFINE text == IF inode[fd[w]] \in LongText /\ w \notin LongText THEN "torn" ELSE w
      <4>1. inode' = [inode EXCEPT ![fd[w]] = text]
        BY <2>2
      <4>2. inode[fd[w]] = "empty" => text = w
        OBVIOUS
      <4> QED
        BY <4>1, <4>2
    <3>3. c \in Contents
      BY DEF Contents
    <3>4. /\ [inode EXCEPT ![fd[w]] = c] \in Seq(Contents)
          /\ Len([inode EXCEPT ![fd[w]] = c]) = Len(inode)
          /\ \A i \in 1..Len(inode) : [inode EXCEPT ![fd[w]] = c][i] = IF i = fd[w] THEN c ELSE inode[i]
      BY <1>0, <3>1, <3>3, ExceptSeq
    <3> QED
      BY <3>1, <3>2, <3>4
  <2>4. AliasTypes'
    BY <2>1, <2>3 DEF AliasTypes, Contents
  <2>5. ASSUME Undisturbed
        PROVE  Undisturbed'
    <3>1. Writing' = Writing /\ w \in Writing
      BY <2>1 DEF Writing, AliasTypes
    <3>2. fd[w] = tmp /\ tmp \in 1..Len(inode) /\ inode'[tmp] = w
      BY <2>1, <2>3, <2>5 DEF Undisturbed, AliasTypes
    <3>3. \A v \in AliasWriter \ {w} : at'[v] = at[v] /\ at[v] \notin {"opened", "written", "renamed"}
      <4>1. \A v \in AliasWriter \ {w} : at'[v] = at[v]
        BY <2>1 DEF AliasTypes
      <4>2. \A v \in AliasWriter \ {w} : v \notin Writing
        BY <2>5, <3>1 DEF Undisturbed
      <4> QED
        BY <4>1, <4>2 DEF Writing
    <3>4. path # 0 => inode'[path] = inode[path]
      BY <2>3, <2>5, <3>2 DEF Undisturbed, AliasTypes
    <3>5. at'[w] = "written"
      BY <2>1 DEF AliasTypes
    <3> QED
      BY <2>1, <2>5, <3>1, <3>2, <3>3, <3>4, <3>5 DEF Undisturbed
  <2> QED
    BY <2>1, <2>4, <2>5
<1>3. ASSUME NEW w \in AliasWriter, WriteFails(w)
      PROVE  AliasInv'
  BY <1>3 DEF WriteFails, Step, AliasTypes
<1>4. ASSUME NEW w \in AliasWriter, RenameTmp(w)
      PROVE  AliasInv'
  <2>1. /\ at[w] = "written" /\ UNCHANGED <<inode, fd, memory, restarts, updated, shared>>
        /\ tmp # 0 /\ at' = [at EXCEPT ![w] = "renamed"] /\ path' = tmp /\ tmp' = 0
    BY <1>4 DEF RenameTmp, Step
  <2>2. AliasTypes'
    BY <2>1 DEF AliasTypes
  <2>3. ASSUME Undisturbed
        PROVE  Undisturbed'
    <3>1. tmp # 0 /\ inode[tmp] = w
      BY <2>1, <2>3 DEF Undisturbed
    <3>2. Writing' = Writing /\ w \in Writing /\ at'[w] = "renamed"
      BY <2>1, <3>1 DEF Writing, AliasTypes
    <3>3. \A v \in AliasWriter \ {w} : at'[v] = at[v] /\ at[v] \notin {"opened", "written", "renamed"}
      BY <2>1, <2>3, <3>2 DEF Undisturbed, Writing, AliasTypes
    <3> QED
      BY <2>1, <2>3, <3>1, <3>2, <3>3 DEF Undisturbed
  <2> QED
    BY <2>1, <2>2, <2>3
<1>5. ASSUME NEW w \in AliasWriter, SetModelAliases(w)
      PROVE  AliasInv'
  <2>1. /\ at[w] = "renamed" /\ at' = [at EXCEPT ![w] = "done"]
        /\ memory' = Update[w] /\ updated' = Update[w]
        /\ UNCHANGED <<inode, path, tmp, fd, restarts, shared>>
    BY <1>5 DEF SetModelAliases, Step
  <2>2. AliasTypes'
    BY <2>1 DEF AliasTypes
  <2>3. ASSUME Undisturbed
        PROVE  Undisturbed'
    <3>1. path # 0 /\ inode[path] = w
      BY <2>1, <2>3 DEF Undisturbed
    <3>2. Writing' = {} /\ w \in Writing
      BY <2>1, <2>3 DEF Undisturbed, Writing, AliasTypes
    <3>3. \A v \in AliasWriter : /\ at'[v] \notin {"opened", "written", "renamed"}
                                 /\ at'[v] # "refused"
      BY <2>1, <2>3, <3>2 DEF Undisturbed, Writing, AliasTypes
    <3> QED
      BY <2>1, <2>3, <3>1, <3>2, <3>3 DEF Undisturbed
  <2> QED
    BY <2>1, <2>2, <2>3
<1>6. CASE Restart
  <2>1. /\ memory' = ConfiguredAliases \cup LoadModelAliases
        /\ fd' = [w \in AliasWriter |-> 0]
        /\ at' = [w \in AliasWriter |-> IF at[w] = "start" THEN "start" ELSE "done"]
        /\ shared' = (shared \/ Writing # {})
        /\ UNCHANGED <<inode, path, tmp, updated>>
    BY <1>6 DEF Restart
  <2>2. AliasTypes'
    BY <2>1, <1>0 DEF AliasTypes
  <2>3. ASSUME ~shared'
        PROVE  Undisturbed'
    <3>1. Undisturbed /\ Writing = {}
      BY <2>1, <2>3
    <3>2. \A w \in AliasWriter : at[w] # "renamed"
      BY <3>1 DEF Writing
    <3>3. memory' \in {updated, ConfiguredAliases \cup updated}
      <4>1. CASE path = 0
        BY <2>1, <3>1, <3>2, <4>1 DEF Undisturbed, LoadModelAliases
      <4>2. CASE path # 0
        BY <2>1, <3>1, <3>2, <4>2 DEF Undisturbed, LoadModelAliases
      <4> QED
        BY <4>1, <4>2
    <3>4. Writing' = {} /\ \A w \in AliasWriter : at'[w] \in {"start", "done"}
      BY <2>1 DEF Writing
    <3> QED
      BY <2>1, <3>1, <3>2, <3>3, <3>4 DEF Undisturbed
  <2> QED
    BY <2>2, <2>3
<1>7. CASE UNCHANGED aliasVars
  BY <1>7 DEF aliasVars, AliasTypes, Undisturbed, Writing
<1>8. ASSUME NEW w \in AliasWriter, RenameFails(w)
      PROVE  AliasInv'
  BY <1>8 DEF RenameFails, Step, AliasTypes
<1> QED
  BY <1>1, <1>2, <1>3, <1>4, <1>5, <1>6, <1>7, <1>8 DEF AliasNext

(* While updates come one at a time and none fails, the file holds the last     *)
(* update answered with 200, whole; the aliases in force are that update, or,   *)
(* after a restart, that update together with the configured aliases            *)
(* (SaveModelAliases, Gateway.SetModelAliases, LoadSettings).                   *)
THEOREM AliasesAreKept == AliasInit /\ [][AliasNext]_aliasVars => []AliasFileMatches
<1>1. AliasInit => AliasInv
  <2> SUFFICES ASSUME AliasInit
               PROVE  AliasInv
    OBVIOUS
  <2>1. inode \in Seq(AliasWriter \cup {"empty", "torn"}) /\ Len(inode) = 0
    BY DEF AliasInit
  <2>2. AliasTypes
    BY <2>1 DEF AliasInit, AliasTypes
  <2>3. Undisturbed
    BY DEF AliasInit, Undisturbed, Writing
  <2> QED
    BY <2>2, <2>3 DEF AliasInv
<1>2. AliasInv /\ [AliasNext]_aliasVars => AliasInv'
  BY AliasStep
<1>3. AliasInv => AliasFileMatches
  <2> SUFFICES ASSUME AliasInv, ~shared, Writing = {}
               PROVE  /\ path # 0 => inode[path] \in AliasWriter /\ LoadModelAliases = updated
                      /\ memory \in {updated, ConfiguredAliases \cup updated}
    BY DEF AliasFileMatches
  <2>1. \A w \in AliasWriter : at[w] # "renamed"
    BY DEF Writing
  <2> QED
    BY <2>1, AliasAssumption DEF AliasInv, Undisturbed, LoadModelAliases
<1> QED
  BY <1>1, <1>2, <1>3, PTL

-----------------------------------------------------------------------------
(* The debug capture.  A request that is watched began while the capture was  *)
(* on, and the newest entry has the last number given.                        *)

DebugTypes ==
    /\ entries \in Seq(Nat) /\ seq \in Nat /\ sinceClear \in Seq(Captured)
    /\ DOMAIN serving = Captured
    /\ \A r \in Captured : serving[r] = "watched" => r \in onAtStart

DebugInv == DebugTypes /\ RingKeepsNewest

(* The trimmed ring is the end of the ring, and no longer than it may be.     *)
LEMMA TrimmedIsTheEnd ==
    ASSUME NEW s \in Seq(Nat)
    PROVE  /\ Trimmed(s) \in Seq(Nat)
           /\ Len(Trimmed(s)) = IF Len(s) < MaxRecords THEN Len(s) ELSE MaxRecords
           /\ \A n \in DOMAIN Trimmed(s) : Trimmed(s)[n] = s[Len(s) - Len(Trimmed(s)) + n]
<1> USE DebugAssumption
<1>1. CASE Len(s) > MaxRecords
  <2> DEFINE m == Len(s) - MaxRecords + 1
  <2>1. /\ m \in 1..Len(s) + 1 /\ Len(s) \in Nat /\ Len(s) - m + 1 = MaxRecords
    BY <1>1
  <2>2. Trimmed(s) = SubSeq(s, m, Len(s))
    BY <1>1 DEF Trimmed
  <2>3. \A i \in m..Len(s) : s[i] \in Nat
    BY <2>1
  <2>4. /\ SubSeq(s, m, Len(s)) \in Seq(Nat) /\ Len(SubSeq(s, m, Len(s))) = MaxRecords
        /\ \A n \in 1..MaxRecords : SubSeq(s, m, Len(s))[n] = s[Len(s) - MaxRecords + n]
    <3>1. m \in Int /\ Len(s) \in Int
      BY <2>1
    <3> QED
      BY <2>1, <2>3, <3>1, SubSeqProperties
  <2> QED
    BY <1>1, <2>1, <2>2, <2>4
<1>2. CASE ~(Len(s) > MaxRecords)
  BY <1>2 DEF Trimmed
<1> QED
  BY <1>1, <1>2

(* A request that ends is the newest entry, or none if it was not watched.    *)
LEMMA RecordKeeps ==
    ASSUME DebugInv, NEW r \in Captured, Record(r)
    PROVE  DebugInv'
<1> USE DEF DebugInv
<1> DEFINE s == Append(entries, seq + 1)
<1>1. CASE serving[r] = "watched"
  <2>1. /\ seq' = seq + 1 /\ entries' = Trimmed(s) /\ sinceClear' = Append(sinceClear, r)
        /\ serving' = [serving EXCEPT ![r] = "done"] /\ onAtStart' = onAtStart
    BY <1>1 DEF Record
  <2>2. /\ entries \in Seq(Nat) /\ seq \in Nat /\ sinceClear \in Seq(Captured) /\ r \in onAtStart
    BY <1>1 DEF DebugTypes
  <2>3. /\ s \in Seq(Nat) /\ Len(s) = Len(entries) + 1
        /\ \A n \in DOMAIN s : s[n] = seq + 1 - Len(s) + n
    <3>1. /\ s \in Seq(Nat) /\ Len(s) = Len(entries) + 1 /\ Len(entries) \in Nat
          /\ DOMAIN s = 1..Len(entries) + 1 /\ DOMAIN entries = 1..Len(entries)
          /\ s[Len(entries) + 1] = seq + 1
          /\ \A n \in 1..Len(entries) : s[n] = entries[n]
      BY <2>2
    <3>2. \A n \in 1..Len(entries) : entries[n] = seq - Len(entries) + n
      BY <3>1 DEF RingKeepsNewest
    <3> HIDE DEF s
    <3>3. ASSUME NEW n \in DOMAIN s
          PROVE  s[n] = seq + 1 - Len(s) + n
      <4>1. CASE n = Len(entries) + 1
        BY <2>2, <3>1, <4>1
      <4>2. CASE n \in 1..Len(entries)
        BY <2>2, <3>1, <3>2, <4>2
      <4> QED
        BY <3>1, <3>3, <4>1, <4>2
    <3> QED
      BY <3>1, <3>3
  <2>4. /\ Trimmed(s) \in Seq(Nat)
        /\ Len(Trimmed(s)) = IF Len(s) < MaxRecords THEN Len(s) ELSE MaxRecords
        /\ \A n \in DOMAIN Trimmed(s) : Trimmed(s)[n] = s[Len(s) - Len(Trimmed(s)) + n]
    BY <2>3, TrimmedIsTheEnd
  <2> HIDE DEF s
  <2>5. Len(entries') = IF Len(sinceClear') < MaxRecords THEN Len(sinceClear') ELSE MaxRecords
    BY <2>1, <2>2, <2>3, <2>4, DebugAssumption DEF RingKeepsNewest
  <2>6. ASSUME NEW n \in DOMAIN entries'
        PROVE  entries'[n] = seq' - Len(entries') + n
    <3> DEFINE k == Len(s) - Len(Trimmed(s)) + n
    <3>1. n \in 1..Len(Trimmed(s)) /\ Len(Trimmed(s)) <= Len(s) /\ Len(Trimmed(s)) \in Nat /\ Len(s) \in Nat
      BY <2>1, <2>3, <2>4, <2>6, DebugAssumption
    <3>2. k \in DOMAIN s
      BY <2>3, <3>1
    <3>3. s[k] = seq + 1 - Len(s) + k
      BY <2>3, <3>2
    <3>4. entries'[n] = s[k]
      BY <2>1, <2>4, <2>6
    <3> QED
      BY <2>1, <2>2, <3>1, <3>3, <3>4
  <2>7. \A n \in DOMAIN sinceClear' : sinceClear'[n] \in onAtStart'
    BY <2>1, <2>2 DEF RingKeepsNewest
  <2>8. DebugTypes'
    BY <2>1, <2>2, <2>4 DEF DebugTypes
  <2> QED
    BY <2>5, <2>6, <2>7, <2>8 DEF RingKeepsNewest
<1>2. CASE serving[r] # "watched"
  BY <1>2 DEF Record, DebugTypes, RingKeepsNewest
<1> QED
  BY <1>1, <1>2

(* The log holds the newest requests since it was cleared, numbered without    *)
(* gaps, and only those that began while the capture was on (DebugRecorder).   *)
THEOREM RingIsTheNewest == DebugInit /\ [][DebugNext]_debugVars => []RingKeepsNewest
<1>1. DebugInit => DebugInv
  BY DebugAssumption DEF DebugInit, DebugInv, DebugTypes, RingKeepsNewest
<1>2. DebugInv /\ [DebugNext]_debugVars => DebugInv'
  <2> SUFFICES ASSUME DebugInv, [DebugNext]_debugVars
               PROVE  DebugInv'
    OBVIOUS
  <2> USE DEF DebugInv
  <2>1. CASE SetCapture
    BY <2>1 DEF SetCapture, DebugTypes, RingKeepsNewest
  <2>2. CASE ClearCapture
    BY <2>2, DebugAssumption DEF ClearCapture, DebugTypes, RingKeepsNewest
  <2>3. ASSUME NEW r \in Captured, BeginCapture(r)
        PROVE  DebugInv'
    BY <2>3 DEF BeginCapture, DebugTypes, RingKeepsNewest
  <2>4. ASSUME NEW r \in Captured, Record(r)
        PROVE  DebugInv'
    BY <2>4, RecordKeeps
  <2>5. CASE UNCHANGED debugVars
    BY <2>5 DEF debugVars, DebugTypes, RingKeepsNewest
  <2> QED
    BY <2>1, <2>2, <2>3, <2>4, <2>5 DEF DebugNext
<1>3. DebugInv => RingKeepsNewest
  BY DEF DebugInv
<1> QED
  BY <1>1, <1>2, <1>3, PTL

-----------------------------------------------------------------------------
(* The response cache.  The history `used' and the list `order' change by the *)
(* same two operations, so the list always ends the history.                  *)

(* s is what is left of t after it lost its first d elements.                 *)
Ends(s, t) ==
    \E d \in Nat : Len(t) = d + Len(s) /\ \A i \in 1..Len(s) : s[i] = t[d + i]

(* Unlink is RemoveAt at the one place where the element is.                  *)
LEMMA UnlinkAt ==
    ASSUME NEW S, NEW q \in Seq(S), Distinct(q), NEW i \in 1..Len(q)
    PROVE  Unlink(q, q[i]) = RemoveAt(q, i)
<1>1. q[i] \in ToSet(q)
  BY DEF ToSet
<1>2. (CHOOSE j \in DOMAIN q : q[j] = q[i]) = i
  BY DEF Distinct
<1> QED
  BY <1>1, <1>2 DEF Unlink

(* What stays moves up by one place behind it.                                *)
LEMMA UnlinkPlaces ==
    ASSUME NEW S, NEW q \in Seq(S), Distinct(q), NEW i \in 1..Len(q), NEW k, q[i] = k
    PROVE  /\ Unlink(q, k) \in Seq(S) /\ Len(Unlink(q, k)) = Len(q) - 1
           /\ \A j \in 1..(Len(q) - 1) : Unlink(q, k)[j] = IF j < i THEN q[j] ELSE q[j + 1]
<1> DEFINE r == RemoveAt(q, i)
<1>1. Unlink(q, k) = r
  BY UnlinkAt
<1>2. /\ r \in Seq(S) /\ Len(r) = Len(q) - 1
      /\ \A j \in 1..(Len(q) - 1) : r[j] = IF j < i THEN q[j] ELSE q[j + 1]
  BY RemoveAtFacts
<1> HIDE DEF r
<1> QED
  BY <1>1, <1>2

(* Unlink takes out the element and leaves the others as they were.           *)
LEMMA UnlinkFacts ==
    ASSUME NEW S, NEW q \in Seq(S), Distinct(q), NEW k
    PROVE  /\ Unlink(q, k) \in Seq(S)
           /\ Distinct(Unlink(q, k))
           /\ ToSet(Unlink(q, k)) = ToSet(q) \ {k}
           /\ Len(Unlink(q, k)) = IF k \in ToSet(q) THEN Len(q) - 1 ELSE Len(q)
<1>1. CASE k \notin ToSet(q)
  BY <1>1 DEF Unlink
<1>2. CASE k \in ToSet(q)
  <2>1. PICK i \in 1..Len(q) : q[i] = k
    BY <1>2 DEF ToSet
  <2> DEFINE u == Unlink(q, k)
  <2>2. /\ u \in Seq(S) /\ Len(u) = Len(q) - 1
        /\ \A j \in 1..(Len(q) - 1) : u[j] = IF j < i THEN q[j] ELSE q[j + 1]
    BY <2>1, UnlinkPlaces
  <2> HIDE DEF u
  <2>3. Distinct(u)
    BY <2>2 DEF Distinct
  <2>4. ASSUME NEW j \in 1..Len(u)
        PROVE  u[j] \in ToSet(q) \ {k}
    BY <2>1, <2>2, <2>4 DEF ToSet, Distinct
  <2>5. ASSUME NEW e \in ToSet(q) \ {k}
        PROVE  e \in ToSet(u)
    <3>1. PICK j \in 1..Len(q) : q[j] = e
      BY <2>5 DEF ToSet
    <3>2. CASE j < i
      BY <2>2, <3>1, <3>2 DEF ToSet
    <3>3. CASE j > i
      <4>1. j - 1 \in 1..Len(u) /\ u[j - 1] = e
        BY <2>2, <3>1, <3>3
      <4> QED
        BY <2>2, <4>1 DEF ToSet
    <3> QED
      BY <2>1, <2>5, <3>1, <3>2, <3>3
  <2>6. ToSet(u) = ToSet(q) \ {k}
    <3>1. DOMAIN u = 1..Len(u)
      BY <2>2
    <3>2. ToSet(u) \subseteq ToSet(q) \ {k}
      BY <2>4, <3>1 DEF ToSet
    <3> QED
      BY <2>5, <3>2
  <2> QED
    BY <1>2, <2>2, <2>3, <2>6 DEF u
<1> QED
  BY <1>1, <1>2

(* To use k is to take it out and put it last.                                *)
LEMMA PushFacts ==
    ASSUME NEW S, NEW q \in Seq(S), Distinct(q), NEW k \in S
    PROVE  LET p == Append(Unlink(q, k), k)
           IN  /\ p \in Seq(S) /\ Distinct(p)
               /\ ToSet(p) = ToSet(q) \cup {k}
               /\ Len(p) = IF k \in ToSet(q) THEN Len(q) ELSE Len(q) + 1
<1> DEFINE u == Unlink(q, k)
           p == Append(u, k)
<1>1. /\ u \in Seq(S) /\ Distinct(u) /\ ToSet(u) = ToSet(q) \ {k}
      /\ Len(u) = IF k \in ToSet(q) THEN Len(q) - 1 ELSE Len(q)
  BY UnlinkFacts
<1> HIDE DEF u
<1>2. /\ p \in Seq(S) /\ Len(p) = Len(u) + 1 /\ p[Len(u) + 1] = k
      /\ \A i \in 1..Len(u) : p[i] = u[i]
  BY <1>1
<1> HIDE DEF p
<1>3. \A i \in 1..Len(u) : u[i] # k
  <2>1. DOMAIN u = 1..Len(u) /\ k \notin ToSet(u)
    BY <1>1
  <2> QED
    BY <2>1 DEF ToSet
<1>4. Distinct(p)
  BY <1>1, <1>2, <1>3 DEF Distinct
<1>5. ToSet(p) = ToSet(u) \cup {k}
  <2>1. DOMAIN u = 1..Len(u) /\ DOMAIN p = 1..(Len(u) + 1)
    BY <1>1, <1>2
  <2>2. ToSet(p) \subseteq ToSet(u) \cup {k}
    <3> SUFFICES ASSUME NEW i \in 1..(Len(u) + 1) PROVE p[i] \in ToSet(u) \cup {k}
      BY <2>1 DEF ToSet
    <3>1. CASE i = Len(u) + 1
      BY <1>2, <3>1
    <3>2. CASE i # Len(u) + 1
      <4>1. i \in 1..Len(u)
        BY <1>1, <3>2
      <4> QED
        BY <1>2, <2>1, <4>1 DEF ToSet
    <3> QED
      BY <3>1, <3>2
  <2>3. ToSet(u) \subseteq ToSet(p) /\ k \in ToSet(p)
    <3>1. Len(u) + 1 \in DOMAIN p /\ \A i \in DOMAIN u : i \in DOMAIN p
      BY <1>1, <2>1
    <3> QED
      BY <1>2, <2>1, <3>1 DEF ToSet
  <2> QED
    BY <2>2, <2>3
<1>6. ToSet(p) = ToSet(q) \cup {k} /\ Len(p) = IF k \in ToSet(q) THEN Len(q) ELSE Len(q) + 1
  BY <1>1, <1>2, <1>5
<1> QED
  BY <1>2, <1>4, <1>6 DEF p, u

(* Taking the same element out of both keeps one the end of the other.        *)
LEMMA UnlinkEnds ==
    ASSUME NEW S, NEW s \in Seq(S), NEW t \in Seq(S), Distinct(s), Distinct(t), Ends(s, t), NEW k
    PROVE  Ends(Unlink(s, k), Unlink(t, k))
<1>1. PICK d \in Nat : Len(t) = d + Len(s) /\ \A i \in 1..Len(s) : s[i] = t[d + i]
  BY DEF Ends
<1>2. CASE k \in ToSet(s)
  <2>1. PICK i \in 1..Len(s) : s[i] = k
    BY <1>2 DEF ToSet
  <2>2. d + i \in 1..Len(t) /\ t[d + i] = k
    BY <1>1, <2>1
  <2> DEFINE us == Unlink(s, k)
             ut == Unlink(t, k)
  <2>3. /\ Len(us) = Len(s) - 1
        /\ \A j \in 1..(Len(s) - 1) : us[j] = IF j < i THEN s[j] ELSE s[j + 1]
    BY <2>1, UnlinkPlaces
  <2>4. /\ Len(ut) = Len(t) - 1
        /\ \A j \in 1..(Len(t) - 1) : ut[j] = IF j < d + i THEN t[j] ELSE t[j + 1]
    BY <2>2, UnlinkPlaces
  <2> HIDE DEF us, ut
  <2>5. ASSUME NEW j \in 1..Len(us)
        PROVE  us[j] = ut[d + j]
    <3>1. j \in 1..(Len(s) - 1) /\ d + j \in 1..(Len(t) - 1)
      BY <1>1, <2>3
    <3>2. CASE j < i
      <4> DEFINE m == d + j
      <4>1. m < d + i /\ m \in 1..(Len(t) - 1)
        BY <3>1, <3>2
      <4>2. s[j] = t[m]
        BY <1>1, <3>1
      <4> HIDE DEF m
      <4>3. us[j] = s[j]
        BY <2>3, <3>1, <3>2
      <4>4. ut[m] = t[m]
        BY <2>4, <4>1
      <4> QED
        BY <4>2, <4>3, <4>4 DEF m
    <3>3. CASE ~(j < i)
      <4>1. us[j] = s[j + 1] /\ ut[d + j] = t[(d + j) + 1]
        BY <2>3, <2>4, <3>1, <3>3
      <4>2. j + 1 \in 1..Len(s) /\ d + (j + 1) = (d + j) + 1
        BY <3>1
      <4> QED
        BY <1>1, <4>1, <4>2
    <3> QED
      BY <3>2, <3>3
  <2>6. Len(ut) = d + Len(us)
    BY <1>1, <2>3, <2>4
  <2>7. Ends(us, ut)
    BY <2>5, <2>6 DEF Ends
  <2> QED
    BY <2>7 DEF us, ut
<1>3. CASE k \notin ToSet(s) /\ k \notin ToSet(t)
  BY <1>3 DEF Unlink
<1>4. CASE k \notin ToSet(s) /\ k \in ToSet(t)
  <2>1. PICK p \in 1..Len(t) : t[p] = k
    BY <1>4 DEF ToSet
  <2>2. p <= d
    <3>1. ASSUME p > d
          PROVE  FALSE
      <4>1. p - d \in 1..Len(s) /\ d + (p - d) = p
        BY <1>1, <3>1
      <4>2. s[p - d] = k
        BY <1>1, <2>1, <4>1
      <4> QED
        BY <1>4, <4>1, <4>2 DEF ToSet
    <3> QED
      BY <3>1
  <2>3. Unlink(s, k) = s
    BY <1>4 DEF Unlink
  <2> DEFINE ut == Unlink(t, k)
  <2>4. /\ Len(ut) = Len(t) - 1
        /\ \A j \in 1..(Len(t) - 1) : ut[j] = IF j < p THEN t[j] ELSE t[j + 1]
    BY <2>1, UnlinkPlaces
  <2> HIDE DEF ut
  <2>5. d - 1 \in Nat /\ Len(ut) = (d - 1) + Len(s)
    BY <1>1, <2>1, <2>2, <2>4
  <2>6. ASSUME NEW j \in 1..Len(s)
        PROVE  s[j] = ut[(d - 1) + j]
    <3>1. (d - 1) + j \in 1..(Len(t) - 1) /\ ~((d - 1) + j < p) /\ ((d - 1) + j) + 1 = d + j
      BY <1>1, <2>2, <2>5
    <3> QED
      BY <1>1, <2>4, <3>1
  <2>7. Ends(s, ut)
    BY <2>5, <2>6 DEF Ends
  <2> QED
    BY <2>3, <2>7 DEF ut
<1> QED
  BY <1>2, <1>3, <1>4

(* So does putting an element last in both, and losing the first of the list. *)
LEMMA AppendEnds ==
    ASSUME NEW S, NEW s \in Seq(S), NEW t \in Seq(S), Ends(s, t), NEW k \in S
    PROVE  Ends(Append(s, k), Append(t, k))
<1>1. PICK d \in Nat : Len(t) = d + Len(s) /\ \A i \in 1..Len(s) : s[i] = t[d + i]
  BY DEF Ends
<1> DEFINE sk == Append(s, k)
           tk == Append(t, k)
<1>2. Len(sk) = Len(s) + 1 /\ sk[Len(s) + 1] = k /\ \A i \in 1..Len(s) : sk[i] = s[i]
  OBVIOUS
<1>3. Len(tk) = Len(t) + 1 /\ tk[Len(t) + 1] = k /\ \A i \in 1..Len(t) : tk[i] = t[i]
  OBVIOUS
<1> HIDE DEF sk, tk
<1>4. Len(tk) = d + Len(sk)
  BY <1>1, <1>2, <1>3
<1>5. ASSUME NEW i \in 1..Len(sk)
      PROVE  sk[i] = tk[d + i]
  <2>1. CASE i = Len(s) + 1
    <3>1. d + i = Len(t) + 1
      BY <1>1, <2>1
    <3> QED
      BY <1>2, <1>3, <2>1, <3>1
  <2>2. CASE i # Len(s) + 1
    <3>1. i \in 1..Len(s) /\ d + i \in 1..Len(t)
      BY <1>1, <1>2, <2>2
    <3> QED
      BY <1>1, <1>2, <1>3, <3>1
  <2> QED
    BY <2>1, <2>2
<1>6. Ends(sk, tk)
  BY <1>4, <1>5 DEF Ends
<1> QED
  BY <1>6 DEF sk, tk

(* The newest of a list, oldest entry dropped, are the newest of the list.    *)
LEMMA TailEnds ==
    ASSUME NEW S, NEW s \in Seq(S), NEW t \in Seq(S), Distinct(s), Ends(s, t), s # <<>>
    PROVE  /\ Tail(s) \in Seq(S) /\ Len(Tail(s)) = Len(s) - 1
           /\ Distinct(Tail(s)) /\ ToSet(Tail(s)) \subseteq ToSet(s) /\ Ends(Tail(s), t)
<1>1. PICK d \in Nat : Len(t) = d + Len(s) /\ \A i \in 1..Len(s) : s[i] = t[d + i]
  BY DEF Ends
<1> DEFINE r == Tail(s)
<1>2. r \in Seq(S) /\ Len(r) = Len(s) - 1 /\ Len(s) >= 1 /\ \A i \in 1..Len(r) : r[i] = s[i + 1]
  OBVIOUS
<1> HIDE DEF r
<1>3. Distinct(r)
  BY <1>2 DEF Distinct
<1>4. ToSet(r) \subseteq ToSet(s)
  <2>1. DOMAIN r = 1..Len(r) /\ DOMAIN s = 1..Len(s) /\ \A i \in 1..Len(r) : i + 1 \in 1..Len(s)
    BY <1>2
  <2> QED
    BY <1>2, <2>1 DEF ToSet
<1>5. d + 1 \in Nat /\ Len(t) = (d + 1) + Len(r) /\ \A i \in 1..Len(r) : r[i] = t[(d + 1) + i]
  <2>1. Len(t) = (d + 1) + Len(r)
    BY <1>1, <1>2
  <2>2. ASSUME NEW i \in 1..Len(r)
        PROVE  r[i] = t[(d + 1) + i]
    <3>1. i + 1 \in 1..Len(s) /\ d + (i + 1) = (d + 1) + i
      BY <1>2
    <3> QED
      BY <1>1, <1>2, <3>1
  <2> QED
    BY <2>1, <2>2
<1>6. Ends(r, t)
  BY <1>5 DEF Ends
<1> QED
  BY <1>2, <1>3, <1>4, <1>6 DEF r

(* The list and its history.                                                  *)
LRU ==
    /\ order \in Seq(Key) /\ Distinct(order)
    /\ used \in Seq(Key) /\ Distinct(used)
    /\ Ends(order, used)
    /\ ToSet(order) = Cached /\ Len(order) <= Bound

(* Every entry is filed under its own key; its age, as long as it is fresh,   *)
(* is the age of its answer.                                                  *)
Filed ==
    /\ DOMAIN age = Cached /\ DOMAIN elapsed = Cached
    /\ \A k \in Cached :
         /\ record[k] \in Question /\ MakeKey(record[k]) = k
         /\ age[k] \in Nat /\ elapsed[k] \in Nat
         /\ age[k] <= TTL => elapsed[k] = age[k]

(* What the request goroutines keep between their steps.                      *)
Clients ==
    /\ pending \in [Client -> {"idle", "computing", "answered"}]
    /\ asked \in [Client -> [question : Question, control : Control] \cup {None}]
    /\ answer \in [Client -> [to : Question, from : {"cache", "backend"}] \cup {None}]
    /\ \A c \in Client : pending[c] = "computing" => asked[c] \in [question : Question, control : Control]

CacheInv == LRU /\ Filed /\ Clients

(* The empty cache.                                                           *)
LEMMA InitCacheInv == Init => CacheInv
<1> SUFFICES ASSUME Init PROVE CacheInv
  OBVIOUS
<1>1. Bound \in Nat /\ Bound >= 1
  BY CacheAssumption DEF Bound
<1>2. LRU
  <2>1. order = <<>> /\ used = <<>> /\ Cached = {}
    BY DEF Init, Cached
  <2>2. Ends(<<>>, <<>>)
    <3>1. 0 \in Nat /\ Len(<<>>) = 0 + Len(<<>>) /\ 1..Len(<<>>) = {}
      OBVIOUS
    <3> QED
      BY <3>1 DEF Ends
  <2>3. <<>> \in Seq(Key) /\ Len(<<>>) = 0 /\ Distinct(<<>>) /\ ToSet(<<>>) = {}
    BY DEF Distinct, ToSet
  <2> QED
    BY <1>1, <2>1, <2>2, <2>3 DEF LRU
<1>3. Filed
  BY DEF Init, Filed, Cached
<1>4. Clients
  BY DEF Init, Clients
<1> QED
  BY <1>2, <1>3, <1>4 DEF CacheInv

(* Every question has a key.                                                  *)
LEMMA KeyOfQuestion == \A q \in Question : MakeKey(q) \in Key
BY DEF Question, MakeKey, Key

(* The number of entries the cache may have.                                  *)
LEMMA BoundType == Bound \in Nat /\ Bound >= 1
BY CacheAssumption DEF Bound

(* A hit puts a cached key last, a miss takes an expired one out.             *)
LEMMA HitKeepsCache ==
    ASSUME LRU, Filed, NEW k \in Key, Hit(k)
    PROVE  LRU' /\ Filed'
<1> DEFINE o == Append(Unlink(order, k), k)
           u == Append(Unlink(used, k), k)
<1>1. k \in ToSet(order) /\ order' = o /\ used' = u /\ UNCHANGED <<record, age, elapsed>>
  BY DEF Hit, MoveToBack, Use, LRU
<1>2. /\ o \in Seq(Key) /\ Distinct(o) /\ ToSet(o) = ToSet(order) \cup {k} /\ Len(o) = Len(order)
      /\ u \in Seq(Key) /\ Distinct(u)
  BY <1>1, PushFacts DEF LRU
<1>3. Ends(Unlink(order, k), Unlink(used, k))
  BY UnlinkEnds DEF LRU
<1>4. Unlink(order, k) \in Seq(Key) /\ Unlink(used, k) \in Seq(Key)
  BY UnlinkFacts DEF LRU
<1>5. Ends(o, u)
  BY <1>3, <1>4, AppendEnds
<1> HIDE DEF o, u
<1>6. Cached' = Cached /\ Bound' = Bound
  BY <1>1 DEF Cached, Bound
<1>7. LRU'
  BY <1>1, <1>2, <1>5, <1>6 DEF LRU
<1>8. Filed'
  BY <1>1, <1>6 DEF Filed
<1> QED
  BY <1>7, <1>8

(* A look-up that finds nothing, or something expired, keeps the invariant.   *)
LEMMA MissKeepsCache ==
    ASSUME LRU, Filed, NEW k \in Key, Miss(k)
    PROVE  LRU' /\ Filed'
<1>1. CASE UNCHANGED cacheVars
  BY <1>1 DEF cacheVars, LRU, Filed, Cached, Bound
<1>2. CASE k \in Cached /\ Expire(k)
  <2> DEFINE o == Unlink(order, k)
             u == Unlink(used, k)
  <2>1. /\ o \in Seq(Key) /\ Distinct(o) /\ ToSet(o) = ToSet(order) \ {k} /\ Len(o) = Len(order) - 1
        /\ u \in Seq(Key) /\ Distinct(u)
    BY <1>2, UnlinkFacts DEF LRU
  <2>2. Ends(o, u)
    BY UnlinkEnds DEF LRU
  <2>3. order' = o /\ used' = u
    BY <1>2 DEF Expire
  <2> HIDE DEF o, u
  <2>4. Cached' = Cached \ {k} /\ Bound' = Bound
    BY <1>2 DEF Expire, Cached, Bound
  <2>5. LRU'
    BY <2>1, <2>2, <2>3, <2>4, BoundType DEF LRU
  <2>6. Filed'
    BY <1>2, <2>4 DEF Filed, Expire
  <2> QED
    BY <2>5, <2>6
<1> QED
  BY <1>1, <1>2 DEF Miss

(* Storing an answer puts its key last; when that is one entry too many, the  *)
(* first of the list leaves list and map.                                     *)
LEMMA SetKeepsCache ==
    ASSUME LRU, Filed, NEW q \in Question, Set(MakeKey(q), q)
    PROVE  LRU' /\ Filed'
<1> DEFINE k == MakeKey(q)
           o == Append(Unlink(order, k), k)
           u == Append(Unlink(used, k), k)
           kept == IF Len(o) > Bound THEN Tail(o) ELSE o
<1>0. k \in Key /\ MakeKey(q) = k
  BY KeyOfQuestion
<1>1. /\ used' = u /\ order' = kept
      /\ record' = [j \in ToSet(kept) |-> IF j = k THEN q ELSE record[j]]
      /\ age' = [j \in ToSet(kept) |-> IF j = k THEN 0 ELSE age[j]]
      /\ elapsed' = [j \in ToSet(kept) |-> IF j = k THEN 0 ELSE elapsed[j]]
  BY DEF Set, Use
<1> HIDE DEF k
<1>2. /\ o \in Seq(Key) /\ Distinct(o) /\ ToSet(o) = ToSet(order) \cup {k}
      /\ Len(o) = IF k \in ToSet(order) THEN Len(order) ELSE Len(order) + 1
      /\ u \in Seq(Key) /\ Distinct(u)
  BY <1>0, PushFacts DEF LRU
<1>3. Ends(Unlink(order, k), Unlink(used, k))
  BY UnlinkEnds DEF LRU
<1>4. Unlink(order, k) \in Seq(Key) /\ Unlink(used, k) \in Seq(Key)
  BY UnlinkFacts DEF LRU
<1>5. Ends(o, u) /\ o # <<>>
  BY <1>0, <1>3, <1>4, AppendEnds
<1> HIDE DEF o, u
<1>6. /\ kept \in Seq(Key) /\ Distinct(kept) /\ ToSet(kept) \subseteq ToSet(o) /\ Ends(kept, u)
      /\ Len(kept) <= Bound
  <2>1. Len(o) <= Bound + 1 /\ Len(o) \in Nat /\ Bound \in Nat
    BY <1>2, BoundType DEF LRU
  <2>2. CASE Len(o) > Bound
    <3>1. /\ Tail(o) \in Seq(Key) /\ Len(Tail(o)) = Len(o) - 1
          /\ Distinct(Tail(o)) /\ ToSet(Tail(o)) \subseteq ToSet(o) /\ Ends(Tail(o), u)
      BY <1>2, <1>5, TailEnds
    <3> QED
      BY <2>1, <2>2, <3>1
  <2>3. CASE ~(Len(o) > Bound)
    BY <1>2, <1>5, <2>1, <2>3
  <2> QED
    BY <2>2, <2>3
<1> HIDE DEF kept
<1>7. Cached' = ToSet(kept) /\ Bound' = Bound
  BY <1>1 DEF Cached, Bound
<1>8. LRU'
  BY <1>1, <1>2, <1>6, <1>7 DEF LRU
<1>9. \A j \in ToSet(kept) : j = k \/ j \in Cached
  BY <1>2, <1>6 DEF LRU
<1>10. Filed'
  <2>1. DOMAIN age' = Cached' /\ DOMAIN elapsed' = Cached'
    BY <1>1, <1>7
  <2>2. ASSUME NEW j \in ToSet(kept)
        PROVE  /\ record'[j] \in Question /\ MakeKey(record'[j]) = j
               /\ age'[j] \in Nat /\ elapsed'[j] \in Nat
               /\ age'[j] <= TTL => elapsed'[j] = age'[j]
    <3>1. CASE j = k
      BY <1>0, <1>1, <3>1
    <3>2. CASE j # k
      <4>1. j \in Cached
        BY <1>9, <3>2
      <4>2. record'[j] = record[j] /\ age'[j] = age[j] /\ elapsed'[j] = elapsed[j]
        BY <1>1, <3>2
      <4> QED
        BY <4>1, <4>2 DEF Filed
    <3> QED
      BY <3>1, <3>2
  <2> QED
    BY <1>7, <2>1, <2>2 DEF Filed
<1> QED
  BY <1>8, <1>10

(* Clearing the cache keeps the invariant.                                    *)
LEMMA ClearKeepsCache ==
    ASSUME Clear
    PROVE  LRU' /\ Filed'
<1>1. order' = <<>> /\ used' = <<>> /\ record' = <<>> /\ age' = <<>> /\ elapsed' = <<>>
  BY DEF Clear
<1>2. Cached' = {} /\ Bound' = Bound
  BY <1>1 DEF Cached, Bound
<1>3. 0 \in Nat /\ Len(<<>>) = 0 + Len(<<>>) /\ 1..Len(<<>>) = {}
  OBVIOUS
<1>4. Ends(<<>>, <<>>)
  BY <1>3 DEF Ends
<1>5. <<>> \in Seq(Key) /\ Len(<<>>) = 0 /\ Distinct(<<>>) /\ ToSet(<<>>) = {}
  BY DEF Distinct, ToSet
<1>6. LRU'
  BY <1>1, <1>2, <1>4, <1>5, BoundType DEF LRU
<1>7. Filed'
  BY <1>1, <1>2 DEF Filed
<1> QED
  BY <1>6, <1>7

(* Time passing keeps the invariant: ages only grow.                          *)
LEMMA TickKeepsCache ==
    ASSUME LRU, Filed, Tick
    PROVE  LRU' /\ Filed'
<1>1. UNCHANGED <<order, record, used>>
  BY DEF Tick
<1>2. Cached' = Cached /\ Bound' = Bound
  BY <1>1 DEF Cached, Bound
<1>3. LRU'
  BY <1>1, <1>2 DEF LRU
<1>4. Filed'
  BY <1>1, <1>2, CacheAssumption DEF Filed, Tick, Expired
<1> QED
  BY <1>3, <1>4

(* Every operation of the cache keeps the invariant.                          *)
LEMMA NextKeepsCacheInv == CacheInv /\ [Next]_vars => CacheInv'
<1> SUFFICES ASSUME CacheInv, [Next]_vars PROVE CacheInv'
  OBVIOUS
<1>0. LRU /\ Filed /\ Clients
  BY DEF CacheInv
<1>1. ASSUME NEW c \in Client, NEW q \in Question, NEW control \in Control, Ask(c, q, control)
      PROVE  CacheInv'
  <2> DEFINE k == MakeKey(q)
  <2>0. k \in Key
    BY KeyOfQuestion
  <2>1. asked' = [asked EXCEPT ![c] = [question |-> q, control |-> control]]
    BY <1>1 DEF Ask
  <2>2. CASE Hit(k) /\ pending' = [pending EXCEPT ![c] = "answered"]
                    /\ answer' = [answer EXCEPT ![c] = [to |-> record[k], from |-> "cache"]]
    <3>1. LRU' /\ Filed'
      BY <1>0, <2>0, <2>2, HitKeepsCache
    <3>2. record[k] \in Question
      BY <1>0, <2>2 DEF Hit, Filed
    <3> HIDE DEF k
    <3>3. Clients'
      BY <1>0, <2>1, <2>2, <3>2 DEF Clients
    <3> QED
      BY <3>1, <3>3 DEF CacheInv
  <2>3. CASE /\ UNCHANGED cacheVars \/ Miss(k)
             /\ pending' = [pending EXCEPT ![c] = "computing"] /\ UNCHANGED answer
    <3>1. LRU' /\ Filed'
      <4>1. CASE UNCHANGED cacheVars
        BY <1>0, <4>1 DEF cacheVars, LRU, Filed, Cached, Bound
      <4>2. CASE Miss(k)
        BY <1>0, <2>0, <4>2, MissKeepsCache
      <4> QED
        BY <2>3, <4>1, <4>2
    <3>2. Clients'
      BY <1>0, <2>1, <2>3 DEF Clients
    <3> QED
      BY <3>1, <3>2 DEF CacheInv
  <2> QED
    BY <1>1, <2>2, <2>3 DEF Ask
<1>2. ASSUME NEW c \in Client, Complete(c)
      PROVE  CacheInv'
  <2> DEFINE q == asked[c].question
  <2>1. q \in Question
    BY <1>0, <1>2 DEF Complete, Clients
  <2>2. UNCHANGED cacheVars \/ Set(MakeKey(q), q)
    BY <1>2 DEF Complete
  <2>3. /\ answer' = [answer EXCEPT ![c] = [to |-> q, from |-> "backend"]]
        /\ pending' = [pending EXCEPT ![c] = "answered"] /\ UNCHANGED asked
    BY <1>2 DEF Complete
  <2> HIDE DEF q
  <2>4. LRU' /\ Filed'
    <3>1. CASE UNCHANGED cacheVars
      BY <1>0, <3>1 DEF cacheVars, LRU, Filed, Cached, Bound
    <3>2. CASE Set(MakeKey(q), q)
      BY <1>0, <2>1, <3>2, SetKeepsCache
    <3> QED
      BY <2>2, <3>1, <3>2
  <2>5. Clients'
    BY <1>0, <2>1, <2>3 DEF Clients
  <2> QED
    BY <2>4, <2>5 DEF CacheInv
<1>3. ASSUME NEW c \in Client, Abandon(c) \/ Reply(c)
      PROVE  CacheInv'
  <2>1. UNCHANGED cacheVars /\ Forget(c)
    BY <1>3 DEF Abandon, Reply
  <2>2. LRU' /\ Filed'
    BY <1>0, <2>1 DEF cacheVars, LRU, Filed, Cached, Bound
  <2>3. Clients'
    BY <1>0, <2>1 DEF Forget, Clients
  <2> QED
    BY <2>2, <2>3 DEF CacheInv
<1>4. CASE Clear \/ Tick
  <2>1. LRU' /\ Filed'
    BY <1>0, <1>4, ClearKeepsCache, TickKeepsCache
  <2>2. Clients'
    BY <1>0, <1>4 DEF Clear, Tick, clientVars, Clients
  <2> QED
    BY <2>1, <2>2 DEF CacheInv
<1>5. CASE UNCHANGED vars
  BY <1>0, <1>5 DEF vars, cacheVars, clientVars, CacheInv, LRU, Filed, Clients, Cached, Bound
<1> QED
  BY <1>1, <1>2, <1>3, <1>4, <1>5 DEF Next

(* The invariant holds of every state of the cache.                           *)
LEMMA CacheInductive == Spec => []CacheInv
BY InitCacheInv, NextKeepsCacheInv, PTL DEF Spec

(* List and map of the cache hold the same entries, never more than           *)
(* max_entries, and those are the most recently used (MemoryCache).           *)
THEOREM NewestAreKept == Spec => []CacheKeepsNewest
<1>1. CacheInv => CacheKeepsNewest
  <2> SUFFICES ASSUME CacheInv PROVE CacheKeepsNewest
    OBVIOUS
  <2>0. LRU
    BY DEF CacheInv
  <2>1. ToSet(order) = Cached /\ Len(order) = Cardinality(Cached) /\ Len(order) <= Bound
    BY <2>0, DistinctCount DEF LRU
  <2>2. PICK d \in Nat : Len(used) = d + Len(order) /\ \A i \in 1..Len(order) : order[i] = used[d + i]
    BY <2>0 DEF LRU, Ends
  <2>3. IsSuffix(order, used)
    BY <2>0, <2>2, SuffixByElements DEF LRU
  <2> QED
    BY <2>1, <2>3 DEF CacheKeepsNewest
<1> QED
  BY <1>1, CacheInductive, PTL

(* A hit was computed for the same namespace and text, and stored no longer   *)
(* than ttl_seconds ago, however the clients interleave (Lookup, Store).      *)
THEOREM HitsAreOwnAndFresh == Spec => HitIsOwnAndFresh
<1> DEFINE Own == \A c \in Client : ~FromCache(c) /\ FromCache(c)' =>
          LET q == asked'[c].question
              a == answer'[c].to
          IN  /\ a.namespace = q.namespace /\ a.text = q.text
              /\ elapsed[MakeKey(q)] <= TTL
<1>1. CacheInv /\ [Next]_vars => [Own]_vars
  <2> SUFFICES ASSUME CacheInv, Next, NEW c \in Client, ~FromCache(c), FromCache(c)'
               PROVE  LET q == asked'[c].question
                          a == answer'[c].to
                      IN  /\ a.namespace = q.namespace /\ a.text = q.text
                          /\ elapsed[MakeKey(q)] <= TTL
    OBVIOUS
  <2>0. Filed /\ Clients
    BY DEF CacheInv
  <2>1. pending'[c] = "answered" /\ answer'[c].from = "cache"
    BY DEF FromCache
  <2>2. ASSUME pending'[c] = pending[c], answer'[c] = answer[c]
        PROVE  FALSE
    BY <2>1, <2>2 DEF FromCache
  <2>3. PICK b \in Client :
            \/ \E q \in Question, control \in Control : Ask(b, q, control)
            \/ Complete(b) \/ Abandon(b) \/ Reply(b)
    BY <2>2 DEF Next, Clear, Tick, clientVars
  <2>4. b = c
    BY <2>0, <2>2, <2>3 DEF Ask, Complete, Abandon, Reply, Forget, Clients
  <2>5. PICK q \in Question, control \in Control : Ask(c, q, control)
    BY <2>0, <2>1, <2>3, <2>4 DEF Complete, Abandon, Reply, Forget, Clients
  <2> DEFINE k == MakeKey(q)
  <2>6. Hit(k) /\ answer' = [answer EXCEPT ![c] = [to |-> record[k], from |-> "cache"]]
    BY <2>0, <2>1, <2>5 DEF Ask, Clients
  <2>7. asked'[c].question = q /\ answer'[c].to = record[k]
    BY <2>0, <2>5, <2>6 DEF Ask, Clients
  <2>8. k \in Cached /\ age[k] <= TTL
    BY <2>0, <2>6, CacheAssumption DEF Hit, Expired, Filed
  <2>9. MakeKey(record[k]) = MakeKey(q) /\ elapsed[k] <= TTL
    BY <2>0, <2>8 DEF Filed
  <2> HIDE DEF k
  <2>10. record[k].namespace = q.namespace /\ record[k].text = q.text
    BY <2>9 DEF MakeKey
  <2> QED
    BY <2>7, <2>9, <2>10 DEF k
<1> HIDE DEF Own
<1>2. Spec => [][Own]_vars
  BY <1>1, CacheInductive, PTL DEF Spec
<1> QED
  BY <1>2 DEF HitIsOwnAndFresh, Own
=============================================================================
