---------------------------- MODULE ModelAliases ----------------------------
(* The alias map and its file (model_map.go, Gateway.SetModelAliases): every *)
(* update writes the same temporary file and renames it, without a lock, and *)
(* then becomes the map in memory.  Aliases are a set of names.  A file is    *)
(* an inode with contents; "empty" is a truncated file, "torn" one that a     *)
(* shorter text was written over without truncation.                          *)
EXTENDS Naturals, Sequences

CONSTANTS
    AliasWriter,      \* administrators, one update each between restarts
    Update,           \* writer -> the aliases it puts
    LongText,         \* writers whose text is longer than the others'
    ConfiguredAliases,\* aliases in the configuration file
    MaxRestarts       \* bound

ASSUME AliasAssumption ==
    /\ LongText \subseteq AliasWriter /\ AliasWriter \cap {"empty", "torn"} = {}
    /\ MaxRestarts \in Nat

VARIABLES
    inode,    \* contents of every inode made so far
    path, tmp,\* the inodes of model_map.json and model_map.json.tmp, 0 for none
    fd,       \* the inode each writer has open
    at,       \* where each writer is
    memory,   \* Settings.ModelAliases
    restarts,
    updated,  \* history: the last update answered 200, or the initial map
    shared    \* history: two updates ran at the same time, or one failed

aliasVars == <<inode, path, tmp, fd, at, memory, restarts, updated, shared>>

AliasInit ==
    /\ inode = <<>> /\ path = 0 /\ tmp = 0
    /\ fd = [w \in AliasWriter |-> 0] /\ at = [w \in AliasWriter |-> "start"]
    /\ memory = ConfiguredAliases /\ updated = ConfiguredAliases
    /\ restarts = 0 /\ shared = FALSE

Step(w, from, to) == at[w] = from /\ at' = [at EXCEPT ![w] = to]
Writing == {w \in AliasWriter : at[w] \in {"opened", "written", "renamed"}}

(* os.WriteFile opens the temporary file with O_TRUNC or creates it.          *)
OpenTmp(w) ==
    /\ Step(w, "start", "opened")
    /\ inode' = IF tmp = 0 THEN Append(inode, "empty") ELSE [inode EXCEPT ![tmp] = "empty"]
    /\ tmp' = IF tmp = 0 THEN Len(inode) + 1 ELSE tmp
    /\ fd' = [fd EXCEPT ![w] = tmp']
    /\ shared' = (shared \/ Writing # {})
    /\ UNCHANGED <<path, memory, restarts, updated>>

(* It writes from the start of whatever inode it has open; a short text over a *)
(* long one leaves the long one's tail.                                        *)
WriteTmp(w) ==
    /\ Step(w, "opened", "written")
    /\ inode' = [inode EXCEPT ![fd[w]] =
                    IF @ \in LongText /\ w \notin LongText THEN "torn" ELSE w]
    /\ UNCHANGED <<path, tmp, fd, memory, restarts, updated, shared>>

(* A full disk: the update is refused, the temporary file stays.               *)
WriteFails(w) ==
    /\ Step(w, "opened", "refused") /\ shared' = TRUE
    /\ UNCHANGED <<inode, path, tmp, fd, memory, restarts, updated>>

(* Mutant: a file that exists is not replaced.                                 *)
RenameUnlessExists(w) ==
    /\ Step(w, "written", "renamed")
    /\ path' = (IF path = 0 THEN tmp ELSE path) /\ tmp' = 0
    /\ UNCHANGED <<inode, fd, memory, restarts, updated, shared>>

RenameTmp(w) ==
    /\ tmp # 0 /\ Step(w, "written", "renamed")
    /\ path' = tmp /\ tmp' = 0
    /\ UNCHANGED <<inode, fd, memory, restarts, updated, shared>>

(* os.Rename may fail, and must when another update took the temporary file    *)
(* away; the temporary file is removed and the update is refused.              *)
RenameFails(w) ==
    /\ Step(w, "written", "refused") /\ tmp' = 0 /\ shared' = TRUE
    /\ UNCHANGED <<inode, path, fd, memory, restarts, updated>>

(* The update is in force and answered with 200.                               *)
SetModelAliases(w) ==
    /\ Step(w, "renamed", "done")
    /\ memory' = Update[w] /\ updated' = Update[w]
    /\ UNCHANGED <<inode, path, tmp, fd, restarts, shared>>

(* LoadSettings: the configured aliases, and those of the file over them; a    *)
(* file that does not parse keeps the gateway from starting.                   *)
LoadModelAliases == IF path = 0 \/ inode[path] = "empty" THEN {} ELSE Update[inode[path]]

Restart ==
    /\ restarts < MaxRestarts /\ (path # 0 => inode[path] # "torn")
    /\ memory' = ConfiguredAliases \cup LoadModelAliases
    /\ fd' = [w \in AliasWriter |-> 0]
    /\ at' = [w \in AliasWriter |-> IF at[w] = "start" THEN "start" ELSE "done"]
    /\ shared' = (shared \/ Writing # {})
    /\ restarts' = restarts + 1
    /\ UNCHANGED <<inode, path, tmp, updated>>

AliasNext ==
    \/ \E w \in AliasWriter : \/ OpenTmp(w) \/ WriteTmp(w) \/ WriteFails(w)
                              \/ RenameTmp(w) \/ RenameFails(w) \/ SetModelAliases(w)
    \/ Restart

(* When updates come one at a time and none fails, the file holds the last one *)
(* answered with 200, whole, and memory holds it too; after a restart the      *)
(* configured aliases are back beside it.  Overlapping updates may leave the   *)
(* file empty, torn, or with an update that was answered with an error.        *)
(* SaveModelAliases, Gateway.SetModelAliases.                                  *)
AliasFileMatches ==
    ~shared /\ Writing = {} =>
        /\ path # 0 => inode[path] \in AliasWriter /\ LoadModelAliases = updated
        /\ memory \in {updated, ConfiguredAliases \cup updated}

=============================================================================
