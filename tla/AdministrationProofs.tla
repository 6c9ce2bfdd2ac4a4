------------------------ MODULE AdministrationProofs ------------------------
(* What holds of Administration for any set of ids, tokens, goroutines and     *)
(* scenes.  First what every goroutine can rely on between two of its steps    *)
(* (BaseInv), then that accounts stay with their ids (IdsInv), that the pool's *)
(* backends can be started again (UseInv), that a process no pooled account    *)
(* can reach is left only by goroutines that overlapped (LeakInv), that a      *)
(* logout leaves no token behind (LogoutInv), and that the vault is ahead of   *)
(* the memory (VaultInv).                                                      *)
EXTENDS Administration, SequenceLemmas

-----------------------------------------------------------------------------
(* What follows what in the step list of a handler, from its first step to    *)
(* its last.                                                                  *)

LaunchSteps == {"launch", "markReady", "markFailed"}
RebuildSteps == {"clear", "build", "close", "swap"}

(* The steps that change what an account's token, backend or login is. *)
Meddling == {"store", "memory", "install", "build", "close", "swap", "clear", "dropState", "issue",
             "exchange"}

Follows(q, k, s) == k = 1 \/ q[k - 1] \in s

Shaped(q) ==
    \A k \in 1..Len(q) :
        /\ q[k] = "memory" => Follows(q, k, {"store"})
        /\ q[k] = "close" => Follows(q, k, {"build"})
        /\ q[k] = "close" => k < Len(q) /\ q[k + 1] = "swap"
        /\ q[k] = "swap" => Follows(q, k, {"close"})
        /\ q[k] = "addStart" => Follows(q, k, {"install"})
        /\ q[k] = "sdk" => Follows(q, k, {"start", "abort"} \cup LaunchSteps)
        /\ q[k] = "start" /\ k < Len(q) /\ q[k + 1] = "sdk" => Follows(q, k, {"unlist"})
        /\ q[k] \in LaunchSteps \cup {"abort"} => k = 1
        /\ q[k] \in RebuildSteps => \E j \in k..Len(q) : q[j] = "restart"
        /\ q[k] = "restart" => \A j \in k..Len(q) : q[j] \notin Meddling

Restless(q) == \A i \in 1..Len(q) : q[i] # "restart"
Harmless(q) == \A i \in 1..Len(q) : q[i] \notin Meddling
Unstarted(q) == \A i \in 1..Len(q) : q[i] \notin LaunchSteps \cup {"abort"}

(* What the library's concatenation is, element by element. *)
LEMMA Concatenated ==
    ASSUME NEW p \in Seq(Step), NEW q \in Seq(Step)
    PROVE  /\ p \o q \in Seq(Step) /\ Len(p \o q) = Len(p) + Len(q)
           /\ \A i \in 1..Len(p) : (p \o q)[i] = p[i]
           /\ \A i \in 1..Len(q) : (p \o q)[Len(p) + i] = q[i]
           /\ \A k \in 1..(Len(p) + Len(q)) : (p \o q)[k] = IF k <= Len(p) THEN p[k] ELSE q[k - Len(p)]
OBVIOUS

(* Two lists that are shaped make one, when the second starts anew. *)
LEMMA ShapedJoin ==
    ASSUME NEW p \in Seq(Step), NEW q \in Seq(Step), Shaped(p), Shaped(q), p # <<>>, q # <<>>,
           q[1] \in {"store", "remove", "unlist", "authorize"},
           Unstarted(q), Restless(p) \/ Harmless(q)
    PROVE  /\ p \o q \in Seq(Step) /\ p \o q # <<>> /\ Shaped(p \o q) /\ (p \o q)[1] = p[1]
           /\ Harmless(p) /\ Harmless(q) => Harmless(p \o q)
<1> USE DEF Unstarted, Restless, Harmless
<1> DEFINE r == p \o q
<1>1. /\ r \in Seq(Step) /\ Len(r) = Len(p) + Len(q)
      /\ \A i \in 1..Len(p) : r[i] = p[i]
      /\ \A i \in 1..Len(q) : r[Len(p) + i] = q[i]
  BY Concatenated
<1>2. Len(p) >= 1 /\ Len(q) >= 1
  OBVIOUS
<1> HIDE DEF r
<1> DEFINE Good(k) ==
        /\ r[k] = "memory" => Follows(r, k, {"store"})
        /\ r[k] = "close" => Follows(r, k, {"build"})
        /\ r[k] = "close" => k < Len(r) /\ r[k + 1] = "swap"
        /\ r[k] = "swap" => Follows(r, k, {"close"})
        /\ r[k] = "addStart" => Follows(r, k, {"install"})
        /\ r[k] = "sdk" => Follows(r, k, {"start", "abort"} \cup LaunchSteps)
        /\ r[k] = "start" /\ k < Len(r) /\ r[k + 1] = "sdk" => Follows(r, k, {"unlist"})
        /\ r[k] \in LaunchSteps \cup {"abort"} => k = 1
        /\ r[k] \in RebuildSteps => \E j \in k..Len(r) : r[j] = "restart"
        /\ r[k] = "restart" => \A j \in k..Len(r) : r[j] \notin Meddling
<1>3. ASSUME NEW k \in 1..Len(p)
      PROVE  Good(k)
  <2>1. r[k] = p[k] /\ (k # 1 => r[k - 1] = p[k - 1])
    <3>1. k # 1 => k - 1 \in 1..Len(p)
      OBVIOUS
    <3> QED
      BY <1>1, <3>1
  <2>2. /\ Follows(p, k, {"store"}) => Follows(r, k, {"store"})
        /\ Follows(p, k, {"build"}) => Follows(r, k, {"build"})
        /\ Follows(p, k, {"close"}) => Follows(r, k, {"close"})
        /\ Follows(p, k, {"install"}) => Follows(r, k, {"install"})
        /\ Follows(p, k, {"unlist"}) => Follows(r, k, {"unlist"})
        /\ Follows(p, k, {"start", "abort"} \cup LaunchSteps) => Follows(r, k, {"start", "abort"} \cup LaunchSteps)
    BY <2>1 DEF Follows
  <2>3. k < Len(p) => r[k + 1] = p[k + 1]
    BY <1>1
  <2>4. k = Len(p) => r[k + 1] # "sdk"
    BY <1>1, <1>2
  <2>5. r[k] \in RebuildSteps => \E j \in k..Len(r) : r[j] = "restart"
    <3>1. ASSUME p[k] \in RebuildSteps
          PROVE  \E j \in k..Len(r) : r[j] = "restart"
      <4>1. PICK j \in k..Len(p) : p[j] = "restart"
        BY <3>1 DEF Shaped
      <4>2. j \in k..Len(r) /\ r[j] = p[j]
        BY <1>1
      <4> QED
        BY <4>1, <4>2
    <3> QED
      BY <2>1, <3>1
  <2>6. ASSUME r[k] = "restart", NEW j \in k..Len(r)
        PROVE  r[j] \notin Meddling
    <3>1. CASE j <= Len(p)
      <4>1. j \in k..Len(p) /\ j \in 1..Len(p)
        BY <3>1
      <4>2. r[j] = p[j]
        BY <1>1, <4>1
      <4> QED
        BY <2>1, <2>6, <4>1, <4>2 DEF Shaped
    <3>2. CASE j > Len(p)
      <4>1. j - Len(p) \in 1..Len(q) /\ Len(p) + (j - Len(p)) = j
        BY <1>1, <3>2
      <4>2. r[j] = q[j - Len(p)]
        BY <1>1, <4>1
      <4> QED
        BY <2>1, <2>6, <4>1, <4>2
    <3> QED
      BY <3>1, <3>2
  <2>7. r[k] = "start" /\ k < Len(r) /\ r[k + 1] = "sdk" => Follows(r, k, {"unlist"})
    <3>1. CASE k < Len(p)
      BY <2>1, <2>2, <2>3, <3>1 DEF Shaped
    <3>2. CASE ~(k < Len(p))
      BY <2>4, <3>2
    <3> QED
      BY <3>1, <3>2
  <2>8. r[k] = "close" => k < Len(r) /\ r[k + 1] = "swap"
    <3>1. r[k] = "close" => k < Len(p) /\ p[k + 1] = "swap"
      BY <2>1 DEF Shaped
    <3> QED
      BY <1>1, <2>3, <3>1
  <2> QED
    BY <2>1, <2>2, <2>5, <2>6, <2>7, <2>8 DEF Shaped
<1>4. ASSUME NEW i \in 1..Len(q), NEW k \in Nat, k = Len(p) + i
      PROVE  Good(k)
  <2> USE <1>4
  <2>1. r[k] = q[i] /\ (i > 1 => r[k - 1] = q[i - 1])
    <3>1. i > 1 => i - 1 \in 1..Len(q) /\ Len(p) + (i - 1) = k - 1
      OBVIOUS
    <3> QED
      BY <1>1, <3>1
  <2>2. ASSUME i > 1
        PROVE  /\ Follows(q, i, {"store"}) => Follows(r, k, {"store"})
               /\ Follows(q, i, {"build"}) => Follows(r, k, {"build"})
               /\ Follows(q, i, {"close"}) => Follows(r, k, {"close"})
               /\ Follows(q, i, {"install"}) => Follows(r, k, {"install"})
               /\ Follows(q, i, {"unlist"}) => Follows(r, k, {"unlist"})
               /\ Follows(q, i, {"start", "abort"} \cup LaunchSteps) => Follows(r, k, {"start", "abort"} \cup LaunchSteps)
    <3>1. k # 1 /\ i # 1
      BY <2>2, <1>2
    <3> QED
      BY <2>1, <2>2, <3>1 DEF Follows
  <2>3. k < Len(r) => i < Len(q) /\ r[k + 1] = q[i + 1]
    <3>1. k < Len(r) => i + 1 \in 1..Len(q) /\ Len(p) + (i + 1) = k + 1
      BY <1>1
    <3> QED
      BY <1>1, <3>1
  <2>4. r[k] \in RebuildSteps => \E j \in k..Len(r) : r[j] = "restart"
    <3>1. ASSUME q[i] \in RebuildSteps
          PROVE  \E j \in k..Len(r) : r[j] = "restart"
      <4>1. PICK j \in i..Len(q) : q[j] = "restart"
        BY <3>1 DEF Shaped
      <4>2. Len(p) + j \in k..Len(r) /\ r[Len(p) + j] = q[j]
        BY <1>1
      <4> QED
        BY <4>1, <4>2
    <3> QED
      BY <2>1, <3>1
  <2>5. ASSUME r[k] = "restart", NEW j \in k..Len(r)
        PROVE  r[j] \notin Meddling
    <3>1. j - Len(p) \in i..Len(q) /\ r[Len(p) + (j - Len(p))] = q[j - Len(p)]
      BY <1>1
    <3>2. r[j] = q[j - Len(p)]
      BY <3>1
    <3> QED
      BY <2>1, <2>5, <3>1, <3>2 DEF Shaped
  <2>6. CASE i = 1
    <3>1. q[1] \notin {"memory", "close", "swap", "addStart", "sdk", "start", "restart"} \cup LaunchSteps \cup {"abort"}
      BY DEF LaunchSteps
    <3> QED
      BY <2>1, <2>4, <2>6, <3>1
  <2>7. CASE i > 1
    <3>1. q[i] \notin LaunchSteps \cup {"abort"}
      OBVIOUS
    <3>2. r[k] = "start" /\ k < Len(r) /\ r[k + 1] = "sdk" => Follows(r, k, {"unlist"})
      BY <2>1, <2>2, <2>3, <2>7 DEF Shaped
    <3>4. /\ r[k] = "memory" => Follows(r, k, {"store"})
          /\ r[k] = "close" => Follows(r, k, {"build"})
          /\ r[k] = "swap" => Follows(r, k, {"close"})
          /\ r[k] = "addStart" => Follows(r, k, {"install"})
          /\ r[k] = "sdk" => Follows(r, k, {"start", "abort"} \cup LaunchSteps)
      BY <2>1, <2>2, <2>7 DEF Shaped
    <3>5. r[k] = "close" => k < Len(r) /\ r[k + 1] = "swap"
      <4>1. r[k] = "close" => i < Len(q) /\ q[i + 1] = "swap"
        BY <2>1 DEF Shaped
      <4>2. i < Len(q) => r[k + 1] = q[i + 1] /\ k < Len(r)
        <5>1. i < Len(q) => i + 1 \in 1..Len(q) /\ Len(p) + (i + 1) = k + 1 /\ k < Len(r)
          BY <1>1
        <5> QED
          BY <1>1, <5>1
      <4> QED
        BY <4>1, <4>2
    <3> QED
      BY <2>1, <2>4, <2>5, <3>1, <3>2, <3>4, <3>5
  <2> QED
    BY <2>6, <2>7
<1>5. ASSUME NEW k \in 1..Len(r)
      PROVE  Good(k)
  <2>1. CASE k <= Len(p)
    <3>1. k \in 1..Len(p)
      BY <1>1, <2>1
    <3> QED
      BY <1>3, <3>1
  <2>2. CASE k > Len(p)
    <3>1. k \in Nat /\ k - Len(p) \in 1..Len(q) /\ k = Len(p) + (k - Len(p))
      BY <1>1, <2>2
    <3> QED
      BY <1>4, <3>1
  <2> QED
    BY <1>1, <2>1, <2>2
<1>6. Shaped(r)
  BY <1>5 DEF Shaped
<1>7. r # <<>> /\ r[1] = p[1]
  BY <1>1, <1>2
<1>8. ASSUME Harmless(p), Harmless(q), NEW k \in 1..Len(r)
      PROVE  r[k] \notin Meddling
  <2>1. CASE k <= Len(p)
    <3>1. k \in 1..Len(p)
      BY <1>1, <2>1
    <3> QED
      BY <1>1, <1>8, <3>1
  <2>2. CASE k > Len(p)
    <3>1. k - Len(p) \in 1..Len(q) /\ k = Len(p) + (k - Len(p))
      BY <1>1, <2>2
    <3>2. r[k] = q[k - Len(p)]
      BY <1>1, <3>1
    <3> QED
      BY <1>8, <3>1, <3>2
  <2> QED
    BY <1>1, <2>1, <2>2
<1> QED
  BY <1>1, <1>6, <1>7, <1>8 DEF r

(* The handlers as they are written: the lists of pool.go, login.go and of    *)
(* the handlers of server.go.                                                 *)
GiveUpToken == <<"clear", "dropState">> \o RebuildBackend

(* RefreshAccount, applyToken and the token's removal, step by step. *)
LEMMA ShapedParts ==
    /\ RefreshAccount \in Seq(Step) /\ RefreshAccount # <<>> /\ Shaped(RefreshAccount)
    /\ RefreshAccount[1] = "unlist" /\ Unstarted(RefreshAccount) /\ Harmless(RefreshAccount)
    /\ ApplyToken \in Seq(Step) /\ ApplyToken # <<>> /\ Shaped(ApplyToken)
    /\ ApplyToken[1] = "store" /\ Unstarted(ApplyToken)
    /\ GiveUpToken \in Seq(Step) /\ GiveUpToken # <<>> /\ Shaped(GiveUpToken) /\ GiveUpToken[1] = "clear"
<1>1. /\ RefreshAccount \in Seq(Step) /\ Len(RefreshAccount) = 4 /\ RefreshAccount[1] = "unlist"
      /\ RefreshAccount[2] = "start" /\ RefreshAccount[3] = "sdk" /\ RefreshAccount[4] = "list"
  BY DEF RefreshAccount, Step
<1>2. RefreshAccount # <<>> /\ Shaped(RefreshAccount) /\ Unstarted(RefreshAccount) /\ Harmless(RefreshAccount)
  <2>1. RefreshAccount # <<>> /\ Unstarted(RefreshAccount) /\ Harmless(RefreshAccount)
    <3>1. \A k \in 1..4 : RefreshAccount[k] \in {"unlist", "start", "sdk", "list"}
      BY <1>1
    <3>2. \A x \in {"unlist", "start", "sdk", "list"} : x \notin LaunchSteps \cup {"abort"} /\ x \notin Meddling
      BY DEF LaunchSteps, Meddling
    <3> QED
      BY ONLY <1>1, <3>1, <3>2 DEF Unstarted, Harmless
  <2>2. \A k \in 1..4 : RefreshAccount[k] \notin {"memory", "close", "swap", "addStart", "abort", "restart"}
                                                  \cup LaunchSteps \cup RebuildSteps
    BY <1>1 DEF LaunchSteps, RebuildSteps
  <2>3. \A k \in 1..4 : /\ RefreshAccount[k] = "sdk" => k = 3 /\ RefreshAccount[k - 1] = "start"
                        /\ RefreshAccount[k] = "start" => k = 2 /\ RefreshAccount[k - 1] = "unlist"
    BY <1>1
  <2> QED
    BY ONLY <1>1, <2>1, <2>2, <2>3 DEF Shaped, Follows
<1>3. RebuildBackend \in Seq(Step) /\ Len(RebuildBackend) = 4 /\ RebuildBackend[1] = "build"
      /\ RebuildBackend[2] = "close" /\ RebuildBackend[3] = "swap" /\ RebuildBackend[4] = "restart"
  BY DEF RebuildBackend, Step
<1>4. ApplyToken \in Seq(Step) /\ Len(ApplyToken) = 6 /\ ApplyToken[1] = "store" /\ ApplyToken[2] = "memory"
      /\ ApplyToken[3] = "build" /\ ApplyToken[4] = "close" /\ ApplyToken[5] = "swap" /\ ApplyToken[6] = "restart"
  <2> DEFINE p == <<"store", "memory">>
  <2>1. p \in Seq(Step) /\ Len(p) = 2 /\ p[1] = "store" /\ p[2] = "memory"
    BY DEF Step
  <2>2. ApplyToken = p \o RebuildBackend
    BY DEF ApplyToken
  <2> HIDE DEF p
  <2>3. /\ ApplyToken \in Seq(Step) /\ Len(ApplyToken) = 6
        /\ \A k \in 1..6 : ApplyToken[k] = IF k <= 2 THEN p[k] ELSE RebuildBackend[k - 2]
    <3>1. /\ p \o RebuildBackend \in Seq(Step) /\ Len(p \o RebuildBackend) = Len(p) + Len(RebuildBackend)
          /\ \A k \in 1..(Len(p) + Len(RebuildBackend)) :
               (p \o RebuildBackend)[k] = IF k <= Len(p) THEN p[k] ELSE RebuildBackend[k - Len(p)]
      BY ONLY <1>3, <2>1, Concatenated
    <3>2. Len(p) = 2 /\ Len(RebuildBackend) = 4
      BY <1>3, <2>1
    <3>3. Len(p) + Len(RebuildBackend) = 6
      BY <3>2
    <3> QED
      BY <2>2, <3>1, <3>2, <3>3
  <2> QED
    BY <1>3, <2>1, <2>3
<1>5. ApplyToken # <<>> /\ Shaped(ApplyToken) /\ Unstarted(ApplyToken)
  BY <1>4 DEF Shaped, Unstarted, Follows, LaunchSteps, RebuildSteps, Meddling
<1>6. GiveUpToken \in Seq(Step) /\ Len(GiveUpToken) = 6 /\ GiveUpToken[1] = "clear" /\ GiveUpToken[2] = "dropState"
      /\ GiveUpToken[3] = "build" /\ GiveUpToken[4] = "close" /\ GiveUpToken[5] = "swap" /\ GiveUpToken[6] = "restart"
  <2> DEFINE p == <<"clear", "dropState">>
  <2>1. p \in Seq(Step) /\ Len(p) = 2 /\ p[1] = "clear" /\ p[2] = "dropState"
    BY DEF Step
  <2>2. GiveUpToken = p \o RebuildBackend
    BY DEF GiveUpToken
  <2> HIDE DEF p
  <2>3. /\ GiveUpToken \in Seq(Step) /\ Len(GiveUpToken) = 6
        /\ \A k \in 1..6 : GiveUpToken[k] = IF k <= 2 THEN p[k] ELSE RebuildBackend[k - 2]
    <3>1. /\ p \o RebuildBackend \in Seq(Step) /\ Len(p \o RebuildBackend) = Len(p) + Len(RebuildBackend)
          /\ \A k \in 1..(Len(p) + Len(RebuildBackend)) :
               (p \o RebuildBackend)[k] = IF k <= Len(p) THEN p[k] ELSE RebuildBackend[k - Len(p)]
      BY ONLY <1>3, <2>1, Concatenated
    <3>2. Len(p) = 2 /\ Len(RebuildBackend) = 4
      BY <1>3, <2>1
    <3>3. Len(p) + Len(RebuildBackend) = 6
      BY <3>2
    <3> QED
      BY <2>2, <3>1, <3>2, <3>3
  <2> QED
    BY <1>3, <2>1, <2>3
<1>7. GiveUpToken # <<>> /\ Shaped(GiveUpToken)
  <2>1. GiveUpToken # <<>>
    BY <1>6
  <2>2. \A k \in 1..6 : GiveUpToken[k] \notin {"memory", "addStart", "sdk", "start", "abort"} \cup LaunchSteps
    BY <1>6 DEF LaunchSteps
  <2>3. \A k \in 1..6 : /\ GiveUpToken[k] = "close" => k = 4
                        /\ GiveUpToken[k] = "swap" => k = 5
                        /\ GiveUpToken[k] = "restart" => k = 6
    BY <1>6
  <2>4. \A k \in 1..6 : \E j \in k..6 : GiveUpToken[j] = "restart"
    BY <1>6
  <2>5. \A k \in 1..6 : GiveUpToken[k] = "restart" => \A j \in k..6 : GiveUpToken[j] \notin Meddling
    BY <1>6, <2>3 DEF Meddling
  <2> QED
    BY ONLY <1>6, <2>1, <2>2, <2>3, <2>4, <2>5 DEF Shaped, Follows
<1> QED
  BY <1>1, <1>2, <1>4, <1>5, <1>6, <1>7

(* Every handler's program is shaped; one that is not about a token or a      *)
(* login never meddles with them.                                             *)
LEMMA ShapedPrograms ==
    ASSUME NEW op \in Operation
    PROVE  /\ Program(op) \in Seq(Step) /\ Program(op) # <<>> /\ Shaped(Program(op))
           /\ Program(op)[1] \in {"enable", "disable", "store", "clear", "issue", "look", "unlist", "sdk"}
           /\ Program(op)[1] = "sdk" => op = "chat"
           /\ op \notin TokenOps => Harmless(Program(op))
<1> USE DEF Shaped, Unstarted, Restless, Harmless, Follows, LaunchSteps, RebuildSteps, Meddling
<1> DEFINE OK(q, s) == q \in Seq(Step) /\ q # <<>> /\ Shaped(q) /\ q[1] = s
<1>1. OK(<<"enable", "start">>, "enable") /\ OK(<<"disable">>, "disable") /\ OK(<<"look", "exchange">>, "look")
      /\ OK(<<"issue">>, "issue") /\ OK(<<"sdk">>, "sdk")
  BY DEF Step
<1>2. OK(<<"store", "check", "install", "addStart">>, "store")
  BY DEF Step
<1>3. OK(<<"remove">>, "remove") /\ Unstarted(<<"remove">>) /\ Harmless(<<"remove">>)
  BY DEF Step
<1>4. OK(<<"authorize">>, "authorize") /\ Unstarted(<<"authorize">>) /\ Harmless(<<"authorize">>)
  BY DEF Step
<1>5. Restless(<<"look", "exchange">>) /\ Harmless(<<"enable", "start">>) /\ Harmless(<<"disable">>)
      /\ Harmless(<<"sdk">>)
  OBVIOUS
<1> USE ONLY DEF OK
<1>6. /\ OK(adminAccountEnable, "enable") /\ Harmless(adminAccountEnable)
      /\ OK(adminAccountDisable, "disable") /\ Harmless(adminAccountDisable)
      /\ OK(adminCreateUser, "store")
  <2>1. OK(<<"enable", "start">> \o RefreshAccount, "enable") /\ Harmless(<<"enable", "start">> \o RefreshAccount)
    BY <1>1, <1>5, ShapedParts, ShapedJoin
  <2>2. OK(<<"disable">> \o RefreshAccount, "disable") /\ Harmless(<<"disable">> \o RefreshAccount)
    BY <1>1, <1>5, ShapedParts, ShapedJoin
  <2>3. OK(<<"store", "check", "install", "addStart">> \o RefreshAccount, "store")
    <3> DEFINE p == <<"store", "check", "install", "addStart">>
    <3>1. OK(p, "store")
      BY <1>2
    <3> HIDE DEF p
    <3>2. OK(p \o RefreshAccount, "store")
      BY <3>1, ShapedParts, ShapedJoin
    <3> QED
      BY <3>2 DEF p
  <2> QED
    BY <2>1, <2>2, <2>3 DEF adminAccountEnable, adminAccountDisable, adminCreateUser
<1>7. /\ OK(adminUserLogin, "issue")
      /\ OK(sdkForParams, "sdk") /\ Harmless(sdkForParams)
      /\ OK(adminModelsRefreshAccount, "unlist") /\ Harmless(adminModelsRefreshAccount)
  BY <1>1, <1>5, ShapedParts DEF adminUserLogin, sdkForParams, adminModelsRefreshAccount
<1>8. OK(adminUserSetToken, "store")
  BY ShapedParts, ShapedJoin DEF adminUserSetToken
<1>9. OK(adminUserLogout, "clear")
  BY ShapedParts, ShapedJoin DEF adminUserLogout, GiveUpToken
<1>10. OK(adminDeleteUser, "clear")
  <2> DEFINE m == <<"remove">>
  <2>1. OK(GiveUpToken \o m, "clear")
    <3>1. OK(m, "remove") /\ Unstarted(m) /\ Harmless(m)
      BY <1>3
    <3>2. m \in Seq(Step) /\ m # <<>> /\ Shaped(m) /\ m[1] \in {"store", "remove", "unlist", "authorize"}
      BY <3>1
    <3> HIDE DEF m
    <3>3. GiveUpToken \in Seq(Step) /\ GiveUpToken # <<>> /\ Shaped(GiveUpToken) /\ GiveUpToken[1] = "clear"
      BY ShapedParts
    <3> QED
      BY ONLY <3>1, <3>2, <3>3, ShapedJoin DEF OK
  <2>2. OK((GiveUpToken \o <<"remove">>) \o RefreshAccount, "clear")
    BY <2>1, ShapedParts, ShapedJoin
  <2> QED
    BY <2>2 DEF adminDeleteUser, GiveUpToken
<1>11. OK(adminUserLoginPoll, "look")
  <2> DEFINE p == <<"look", "exchange">>
             a == <<"authorize">>
             r == p \o ApplyToken
             t == r \o a
  <2>1. OK(p, "look") /\ Restless(p)
    BY <1>1, <1>5
  <2>2. OK(a, "authorize") /\ Unstarted(a) /\ Harmless(a)
    BY <1>4
  <2>3. adminUserLoginPoll = t \o RefreshAccount
    BY DEF adminUserLoginPoll
  <2> HIDE DEF p, a
  <2>4. OK(r, "look")
    BY <2>1, ShapedParts, ShapedJoin
  <2> HIDE DEF r
  <2>5. OK(t, "look")
    BY <2>2, <2>4, ShapedJoin
  <2> HIDE DEF t
  <2>6. OK(t \o RefreshAccount, "look")
    BY <2>5, ShapedParts, ShapedJoin
  <2> QED
    BY <2>3, <2>6
<1> DEFINE Fits(o) == /\ Program(o) \in Seq(Step) /\ Program(o) # <<>> /\ Shaped(Program(o))
                      /\ Program(o)[1] \in {"enable", "disable", "store", "clear", "issue", "look", "unlist", "sdk"}
                      /\ Program(o)[1] = "sdk" => o = "chat"
                      /\ o \notin TokenOps => Harmless(Program(o))
<1>12. Fits("enable") /\ Fits("disable") /\ Fits("refresh") /\ Fits("chat")
  BY <1>6, <1>7 DEF Program, Fits
<1>13. Fits("create") /\ Fits("delete") /\ Fits("login")
  BY <1>6, <1>7, <1>10 DEF Program, TokenOps, Fits
<1>14. Fits("poll") /\ Fits("setToken") /\ Fits("logout")
  BY <1>8, <1>9, <1>11 DEF Program, TokenOps, Fits
<1>15. Fits(op)
  <2> HIDE DEF Fits
  <2> QED
    BY <1>12, <1>13, <1>14 DEF Operation
<1> QED
  BY <1>15 DEF Fits

(* Which steps a handler has, at any time of its run; "none" is RefreshLoop. *)
StepsOf(op) ==
    {s \in Step :
        /\ s \in {"check", "install", "addStart", "abort"} => op = "create"
        /\ s \in {"look", "exchange", "authorize"} => op = "poll"
        /\ s = "memory" => op \in {"poll", "setToken"}
        /\ s = "store" => op \in {"poll", "setToken", "create"}
        /\ s = "issue" => op = "login"
        /\ s = "remove" => op = "delete"
        /\ s \in {"clear", "dropState"} => op \in {"logout", "delete"}
        /\ s \in {"build", "close", "swap", "restart"} => op \in {"logout", "delete", "poll", "setToken"}
        /\ s \in {"snapshot", "swapIndex"} => FALSE
        /\ s \in {"visit", "gather"} => op = "none"
        /\ op = "none" => s \in {"visit", "sdk", "gather"} \cup LaunchSteps}

(* Two lists of steps of S make one. *)
LEMMA JoinedIn ==
    ASSUME NEW S, NEW p \in Seq(S), NEW q \in Seq(S)
    PROVE  p \o q \in Seq(S)
OBVIOUS

(* A handler has no other steps than those. *)
LEMMA ProgramSteps ==
    ASSUME NEW op \in Operation
    PROVE  Program(op) \in Seq(StepsOf(op))
<1>1. ASSUME NEW S, {"unlist", "start", "sdk", "list"} \subseteq S
      PROVE  RefreshAccount \in Seq(S)
  BY <1>1 DEF RefreshAccount
<1>2. ASSUME NEW S, {"build", "close", "swap", "restart"} \subseteq S
      PROVE  RebuildBackend \in Seq(S)
  BY <1>2 DEF RebuildBackend
<1>3. ASSUME NEW S, {"build", "close", "swap", "restart", "store", "memory"} \subseteq S
      PROVE  ApplyToken \in Seq(S)
  <2>1. RebuildBackend \in Seq(S) /\ <<"store", "memory">> \in Seq(S)
    BY <1>2, <1>3
  <2> QED
    BY <2>1, JoinedIn DEF ApplyToken
<1>4. \A o \in Operation : {"unlist", "start", "sdk", "list"} \subseteq StepsOf(o)
  BY DEF StepsOf, Step, Operation
<1>5. \A o \in Operation : RefreshAccount \in Seq(StepsOf(o))
  BY <1>1, <1>4
<1> DEFINE Fits(o) == Program(o) \in Seq(StepsOf(o))
<1>6. ASSUME op = "enable"
      PROVE  Fits(op)
  <2>1. <<"enable", "start">> \in Seq(StepsOf(op))
    BY <1>6 DEF StepsOf, Step
  <2> QED
    BY <1>5, <1>6, <2>1, JoinedIn DEF Program, adminAccountEnable
<1>7. ASSUME op = "disable"
      PROVE  Fits(op)
  <2>1. <<"disable">> \in Seq(StepsOf(op))
    BY <1>7 DEF StepsOf, Step
  <2> QED
    BY <1>5, <1>7, <2>1, JoinedIn DEF Program, adminAccountDisable
<1>8. ASSUME op = "create"
      PROVE  Fits(op)
  <2>1. <<"store", "check", "install", "addStart">> \in Seq(StepsOf(op))
    BY <1>8 DEF StepsOf, Step
  <2> QED
    BY <1>5, <1>8, <2>1, JoinedIn DEF Program, adminCreateUser
<1>9. op \in {"delete", "logout"} => /\ <<"clear", "dropState">> \in Seq(StepsOf(op))
                                     /\ RebuildBackend \in Seq(StepsOf(op))
  <2>1. op \in {"delete", "logout"} =>
            {"clear", "dropState"} \subseteq StepsOf(op) /\ {"build", "close", "swap", "restart"} \subseteq StepsOf(op)
    BY DEF StepsOf, Step
  <2> QED
    BY <1>2, <2>1
<1>10. ASSUME op = "delete"
       PROVE  Fits(op)
  <2>1. <<"remove">> \in Seq(StepsOf(op))
    BY <1>10 DEF StepsOf, Step
  <2>2. <<"clear", "dropState">> \o RebuildBackend \in Seq(StepsOf(op))
    BY <1>9, <1>10, JoinedIn
  <2>3. <<"clear", "dropState">> \o RebuildBackend \o <<"remove">> \in Seq(StepsOf(op))
    BY <2>1, <2>2, JoinedIn
  <2>4. <<"clear", "dropState">> \o RebuildBackend \o <<"remove">> \o RefreshAccount \in Seq(StepsOf(op))
    BY <1>5, <2>3, JoinedIn
  <2> QED
    BY <1>10, <2>4 DEF Program, adminDeleteUser
<1>11. ASSUME op = "logout"
       PROVE  Fits(op)
  <2>1. <<"clear", "dropState">> \o RebuildBackend \in Seq(StepsOf(op))
    BY <1>9, <1>11, JoinedIn
  <2>2. <<"clear", "dropState">> \o RebuildBackend \o RefreshAccount \in Seq(StepsOf(op))
    BY <1>5, <2>1, JoinedIn
  <2> QED
    BY <1>11, <2>2 DEF Program, adminUserLogout
<1>12. ASSUME op = "login"
       PROVE  Fits(op)
  BY <1>12 DEF Program, adminUserLogin, StepsOf, Step
<1>13. op \in {"poll", "setToken"} => ApplyToken \in Seq(StepsOf(op))
  <2>1. op \in {"poll", "setToken"} => {"build", "close", "swap", "restart", "store", "memory"} \subseteq StepsOf(op)
    BY DEF StepsOf, Step
  <2> QED
    BY <1>3, <2>1
<1>14. ASSUME op = "poll"
       PROVE  Fits(op)
  <2>1. <<"look", "exchange">> \in Seq(StepsOf(op)) /\ <<"authorize">> \in Seq(StepsOf(op))
    BY <1>14 DEF StepsOf, Step
  <2>2. <<"look", "exchange">> \o ApplyToken \in Seq(StepsOf(op))
    BY <1>13, <1>14, <2>1, JoinedIn
  <2>3. <<"look", "exchange">> \o ApplyToken \o <<"authorize">> \in Seq(StepsOf(op))
    BY <2>1, <2>2, JoinedIn
  <2>4. <<"look", "exchange">> \o ApplyToken \o <<"authorize">> \o RefreshAccount \in Seq(StepsOf(op))
    BY <1>5, <2>3, JoinedIn
  <2> QED
    BY <1>14, <2>4 DEF Program, adminUserLoginPoll
<1>15. ASSUME op = "setToken"
       PROVE  Fits(op)
  BY <1>5, <1>13, <1>15, JoinedIn DEF Program, adminUserSetToken
<1>16. ASSUME op \in {"refresh", "chat"}
       PROVE  Fits(op)
  <2>1. <<"sdk">> \in Seq(StepsOf("chat"))
    BY DEF StepsOf, Step
  <2> QED
    BY <1>5, <1>16, <2>1 DEF Program, adminModelsRefreshAccount, sdkForParams
<1> HIDE DEF Fits
<1>17. Fits(op)
  BY <1>6, <1>7, <1>8, <1>10, <1>11, <1>12, <1>14, <1>15, <1>16 DEF Operation
<1> QED
  BY <1>17 DEF Fits

(* What is left of a list has no steps but the list's. *)
LEMMA StepsStay ==
    ASSUME NEW S, NEW q \in Seq(S)
    PROVE  /\ \A k \in 1..Len(q) : q[k] \in S
           /\ q # <<>> => Tail(q) \in Seq(S) /\ q[1] \in S
           /\ \A s \in S, r \in Seq(S) : <<s>> \o r \in Seq(S)
OBVIOUS

(* What is left of a list of steps of S is one. *)
LEMMA LeftStays ==
    ASSUME NEW S, NEW q \in Seq(S), NEW r \in Seq(Step), NEW d \in Nat, Len(r) = Len(q) - d,
           \A i \in 1..Len(r) : r[i] = q[d + i]
    PROVE  r \in Seq(S)
<1>1. \A i \in 1..Len(r) : d + i \in 1..Len(q)
  OBVIOUS
<1>2. \A i \in 1..Len(r) : r[i] \in S
  BY <1>1
<1> QED
  BY <1>2

-----------------------------------------------------------------------------
(* What is left of a shaped list after its first d steps is shaped. *)
Left(q, r, d) == r \in Seq(Step) /\ d \in 0..Len(q) /\ Len(r) = Len(q) - d /\ \A i \in 1..Len(r) : r[i] = q[d + i]

(* The rest of a handler's program is shaped. *)
LEMMA ShapedLeft ==
    ASSUME NEW q \in Seq(Step), NEW r, NEW d \in Nat, Left(q, r, d), Shaped(q)
    PROVE  Shaped(r)
<1>1. r \in Seq(Step) /\ d \in 0..Len(q) /\ Len(r) = Len(q) - d /\ \A i \in 1..Len(r) : r[i] = q[d + i]
  BY DEF Left
<1> SUFFICES ASSUME NEW i \in 1..Len(r)
             PROVE  /\ r[i] = "memory" => Follows(r, i, {"store"})
                    /\ r[i] = "close" => Follows(r, i, {"build"})
                    /\ r[i] = "close" => i < Len(r) /\ r[i + 1] = "swap"
                    /\ r[i] = "swap" => Follows(r, i, {"close"})
                    /\ r[i] = "addStart" => Follows(r, i, {"install"})
                    /\ r[i] = "sdk" => Follows(r, i, {"start", "abort"} \cup LaunchSteps)
                    /\ r[i] = "start" /\ i < Len(r) /\ r[i + 1] = "sdk" => Follows(r, i, {"unlist"})
                    /\ r[i] \in LaunchSteps \cup {"abort"} => i = 1
                    /\ r[i] \in RebuildSteps => \E j \in i..Len(r) : r[j] = "restart"
                    /\ r[i] = "restart" => \A j \in i..Len(r) : r[j] \notin Meddling
  BY <1>1 DEF Shaped
<1>2. d + i \in 1..Len(q) /\ r[i] = q[d + i] /\ (i # 1 => r[i - 1] = q[(d + i) - 1] /\ d + i # 1)
  <2>1. d + i \in 1..Len(q) /\ r[i] = q[d + i]
    BY <1>1
  <2>2. i # 1 => i - 1 \in 1..Len(r) /\ d + (i - 1) = (d + i) - 1 /\ d + i # 1
    BY <1>1
  <2> QED
    BY <1>1, <2>1, <2>2
<1>3. i < Len(r) => d + i < Len(q) /\ r[i + 1] = q[(d + i) + 1]
  <2>1. i < Len(r) => i + 1 \in 1..Len(r) /\ d + (i + 1) = (d + i) + 1 /\ d + i < Len(q)
    <3>1. i < Len(r) => i + 1 \in 1..Len(r)
      OBVIOUS
    <3>2. d + (i + 1) = (d + i) + 1
      OBVIOUS
    <3>3. i < Len(r) => d + i < Len(q)
      BY <1>1
    <3> QED
      BY <3>1, <3>2, <3>3
  <2> QED
    BY <1>1, <2>1
<1>4. ASSUME r[i] \in RebuildSteps
      PROVE  \E j \in i..Len(r) : r[j] = "restart"
  <2>1. PICK j \in (d + i)..Len(q) : q[j] = "restart"
    BY <1>2, <1>4 DEF Shaped
  <2>2. j - d \in i..Len(r) /\ j - d \in 1..Len(r) /\ d + (j - d) = j
    BY <1>1
  <2> QED
    BY <1>1, <2>1, <2>2
<1>5. ASSUME r[i] = "restart", NEW j \in i..Len(r)
      PROVE  r[j] \notin Meddling
  <2>1. j \in 1..Len(r) /\ d + j \in (d + i)..Len(q)
    BY <1>1
  <2> QED
    BY <1>1, <1>2, <1>5, <2>1 DEF Shaped
<1> DEFINE k == d + i
<1>6. /\ q[k] = "memory" => Follows(q, k, {"store"})
      /\ q[k] = "close" => Follows(q, k, {"build"})
      /\ q[k] = "swap" => Follows(q, k, {"close"})
      /\ q[k] = "addStart" => Follows(q, k, {"install"})
      /\ q[k] = "sdk" => Follows(q, k, {"start", "abort"} \cup LaunchSteps)
      /\ q[k] = "start" /\ k < Len(q) /\ q[k + 1] = "sdk" => Follows(q, k, {"unlist"})
      /\ q[k] \in LaunchSteps \cup {"abort"} => k = 1
  BY <1>2 DEF Shaped
<1>7. r[i] \in LaunchSteps \cup {"abort"} => i = 1
  BY <1>1, <1>2, <1>6
<1>8. r[i] = "close" => i < Len(r) /\ r[i + 1] = "swap"
  <2>1. r[i] = "close" => k < Len(q) /\ q[k + 1] = "swap"
    BY <1>2 DEF Shaped
  <2>2. k < Len(q) => i < Len(r)
    BY <1>1
  <2> QED
    BY <1>3, <2>1, <2>2
<1> HIDE DEF k
<1> QED
  BY <1>2, <1>3, <1>4, <1>5, <1>6, <1>7, <1>8 DEF Follows, k

(* A list whose steps up to the d-th one step takes the place of. *)
LEMMA ShapedFront ==
    ASSUME NEW q \in Seq(Step), NEW r, NEW d \in Nat \ {0}, Left(q, r, d), Shaped(q), NEW s,
           \/ s \in LaunchSteps /\ q[d] \notin {"store", "build", "close", "install", "unlist"}
           \/ s = "dropState" /\ q[d] = "restart"
    PROVE  /\ <<s>> \o r \in Seq(Step) /\ Len(<<s>> \o r) = Len(r) + 1 /\ (<<s>> \o r)[1] = s
           /\ \A i \in 1..Len(r) : (<<s>> \o r)[i + 1] = r[i]
           /\ Shaped(<<s>> \o r)
<1> DEFINE t == <<s>> \o r
<1>1. r \in Seq(Step) /\ d \in 0..Len(q) /\ Len(r) = Len(q) - d /\ \A i \in 1..Len(r) : r[i] = q[d + i]
  BY DEF Left
<1>2. s \in Step
  BY DEF Step, LaunchSteps
<1>3. t \in Seq(Step) /\ Len(t) = Len(r) + 1 /\ t[1] = s /\ \A i \in 1..Len(r) : t[i + 1] = r[i]
  <2> DEFINE p == <<s>>
  <2>1. p \in Seq(Step) /\ Len(p) = 1 /\ p[1] = s
    BY <1>2
  <2> HIDE DEF p
  <2>2. /\ p \o r \in Seq(Step) /\ Len(p \o r) = Len(p) + Len(r)
        /\ \A i \in 1..Len(p) : (p \o r)[i] = p[i]
        /\ \A i \in 1..Len(r) : (p \o r)[Len(p) + i] = r[i]
    BY <1>1, <2>1, Concatenated
  <2>3. \A i \in 1..Len(r) : i + 1 = 1 + i
    BY <1>1
  <2> QED
    BY <1>1, <2>1, <2>2, <2>3 DEF p
<1> HIDE DEF t
<1>4. Shaped(r)
  BY ShapedLeft
<1>5. r # <<>> => r[1] \notin {"memory", "close", "swap", "addStart", "abort"} \cup LaunchSteps
                  /\ (r[1] = "sdk" => s \in LaunchSteps)
                  /\ (Len(r) > 1 /\ r[1] = "start" => r[2] # "sdk")
  <2> SUFFICES ASSUME r # <<>>
               PROVE  r[1] \notin {"memory", "close", "swap", "addStart", "abort"} \cup LaunchSteps
                      /\ (r[1] = "sdk" => s \in LaunchSteps)
                      /\ (Len(r) > 1 /\ r[1] = "start" => r[2] # "sdk")
    OBVIOUS
  <2>1. d + 1 \in 1..Len(q) /\ r[1] = q[d + 1] /\ (d + 1) - 1 = d /\ d + 1 # 1
    BY <1>1
  <2>2. Len(r) > 1 => d + 1 < Len(q) /\ r[2] = q[(d + 1) + 1]
    BY <1>1
  <2>3. s \in LaunchSteps \/ (s = "dropState" /\ q[d] = "restart")
    OBVIOUS
  <2>4. q[d] \notin {"store", "build", "close", "install", "unlist"}
    OBVIOUS
  <2> DEFINE k == d + 1
  <2>5. /\ q[k] = "memory" => Follows(q, k, {"store"})
        /\ q[k] = "close" => Follows(q, k, {"build"})
        /\ q[k] = "swap" => Follows(q, k, {"close"})
        /\ q[k] = "addStart" => Follows(q, k, {"install"})
        /\ q[k] = "sdk" => Follows(q, k, {"start", "abort"} \cup LaunchSteps)
        /\ q[k] = "start" /\ k < Len(q) /\ q[k + 1] = "sdk" => Follows(q, k, {"unlist"})
        /\ q[k] \in LaunchSteps \cup {"abort"} => k = 1
    BY <2>1 DEF Shaped
  <2>6. k # 1 /\ k - 1 = d /\ r[1] = q[k]
    BY <2>1
  <2>7. Len(r) > 1 => k < Len(q) /\ r[2] = q[k + 1]
    BY <2>2
  <2> HIDE DEF k
  <2> QED
    BY <2>3, <2>4, <2>5, <2>6, <2>7 DEF Follows, LaunchSteps
<1> SUFFICES ASSUME NEW k \in 1..Len(t)
             PROVE  /\ t[k] = "memory" => Follows(t, k, {"store"})
                    /\ t[k] = "close" => Follows(t, k, {"build"})
                    /\ t[k] = "close" => k < Len(t) /\ t[k + 1] = "swap"
                    /\ t[k] = "swap" => Follows(t, k, {"close"})
                    /\ t[k] = "addStart" => Follows(t, k, {"install"})
                    /\ t[k] = "sdk" => Follows(t, k, {"start", "abort"} \cup LaunchSteps)
                    /\ t[k] = "start" /\ k < Len(t) /\ t[k + 1] = "sdk" => Follows(t, k, {"unlist"})
                    /\ t[k] \in LaunchSteps \cup {"abort"} => k = 1
                    /\ t[k] \in RebuildSteps => \E j \in k..Len(t) : t[j] = "restart"
                    /\ t[k] = "restart" => \A j \in k..Len(t) : t[j] \notin Meddling
  BY <1>3 DEF Shaped, t
<1>6. CASE k = 1
  <2>1. t[k] \in LaunchSteps \cup {"dropState"}
    BY <1>3, <1>6
  <2> QED
    BY <1>6, <2>1 DEF LaunchSteps, RebuildSteps
<1>7. CASE k # 1
  <2> DEFINE i == k - 1
  <2>1. i \in 1..Len(r) /\ i + 1 = k
    BY <1>3, <1>7
  <2>2. t[k] = r[i]
    BY <1>3, <2>1
  <2>3. k < Len(t) => i < Len(r) /\ t[k + 1] = r[i + 1]
    <3>1. k < Len(t) => i + 1 \in 1..Len(r) /\ (i + 1) + 1 = k + 1 /\ i < Len(r)
      BY <1>3, <2>1
    <3> QED
      BY <1>3, <3>1
  <2>4. i # 1 => t[k - 1] = r[i - 1]
    <3>1. i # 1 => i - 1 \in 1..Len(r) /\ (i - 1) + 1 = k - 1
      BY <2>1
    <3> QED
      BY <1>3, <3>1
  <2>5. i = 1 => t[k - 1] = s
    BY <1>3
  <2>6. ASSUME t[k] \in RebuildSteps
        PROVE  \E j \in k..Len(t) : t[j] = "restart"
    <3>1. PICK j \in i..Len(r) : r[j] = "restart"
      BY <1>4, <2>1, <2>2, <2>6 DEF Shaped
    <3>2. j \in 1..Len(r) /\ j + 1 \in k..Len(t)
      BY <1>3, <2>1
    <3> QED
      BY <1>3, <3>1, <3>2
  <2>7. ASSUME t[k] = "restart", NEW j \in k..Len(t)
        PROVE  t[j] \notin Meddling
    <3>1. j - 1 \in i..Len(r) /\ j - 1 \in 1..Len(r) /\ (j - 1) + 1 = j
      BY <1>3, <1>7, <2>1
    <3>2. t[j] = r[j - 1]
      BY <1>3, <3>1
    <3> QED
      BY <1>4, <2>1, <2>2, <2>7, <3>1, <3>2 DEF Shaped
  <2>8. /\ r[i] = "memory" => Follows(r, i, {"store"})
        /\ r[i] = "close" => Follows(r, i, {"build"})
        /\ r[i] = "swap" => Follows(r, i, {"close"})
        /\ r[i] = "addStart" => Follows(r, i, {"install"})
        /\ r[i] = "sdk" => Follows(r, i, {"start", "abort"} \cup LaunchSteps)
        /\ r[i] = "start" /\ i < Len(r) /\ r[i + 1] = "sdk" => Follows(r, i, {"unlist"})
        /\ r[i] \in LaunchSteps \cup {"abort"} => i = 1
    BY <1>4, <2>1 DEF Shaped
  <2>9. r # <<>> /\ (i = 1 => i + 1 = 2) /\ (i = 1 /\ i < Len(r) => Len(r) > 1)
    BY <1>1, <2>1
  <2>10. t[k] = "close" => k < Len(t) /\ t[k + 1] = "swap"
    <3>1. r[i] = "close" => i < Len(r) /\ r[i + 1] = "swap"
      BY <1>4, <2>1 DEF Shaped
    <3>2. i < Len(r) => k < Len(t)
      BY <1>3, <2>1
    <3> QED
      BY <2>2, <2>3, <3>1, <3>2
  <2> HIDE DEF i
  <2> QED
    BY <1>5, <1>7, <2>10, <2>2, <2>3, <2>4, <2>5, <2>6, <2>7, <2>8, <2>9 DEF Follows
<1> QED
  BY <1>6, <1>7

-----------------------------------------------------------------------------
(* What a goroutine has among its locals, given the steps q it has left, na    *)
(* accounts and nb backends made so far.                                       *)

Tokens == Token \cup {""}
AccountRecord == [id : Id, enabled : BOOLEAN, token : Tokens, backend : Nat]
BackendRecord == [token : Tokens, client : Nat, made : Nat, ready : BOOLEAN]
FlowRecord    == [status : {"pending", "expired", "authorized", "error"}, used : BOOLEAN]
Locals == [op : Operation \cup {"none"}, id : Id, token : Tokens, account : Nat, backend : Nat,
           client : Nat, onError : {"ignore", "abort", "fail"}, flow : Nat, queue : SUBSET Nat,
           found : SUBSET Id, alone : BOOLEAN]

(* It is about to use the account, *)
NeedsAccount(q) == \/ q # <<>> /\ q[1] \in {"sdk", "addStart", "abort", "close", "swap"}
                   \/ Len(q) > 1 /\ q[2] = "sdk"
(* is in CopilotBackend.Start, *)
Launches(q) == q # <<>> /\ q[1] \in LaunchSteps
(* is in RebuildBackend with a new backend made. *)
Rebuilds(q) == q # <<>> /\ q[1] \in {"close", "swap"}

LocalOK(q, l, na, nb) ==
    /\ q \in Seq(Step) /\ Shaped(q) /\ q \in Seq(StepsOf(l.op)) /\ l \in Locals
    /\ l.account \in 0..na /\ l.queue \subseteq 1..na
    /\ NeedsAccount(q) => l.account # 0
    /\ Launches(q) => /\ l.backend \in 1..nb /\ l.client # 0
                      /\ l.onError = "abort" => l.account # 0 /\ l.op = "create"
    /\ Rebuilds(q) => l.backend \in 1..nb
    /\ l.op # "none" => l.queue = {}
    /\ l.op = "none" => l.onError = "ignore"
    /\ \A k \in 1..Len(q) : q[k] = "gather" => l.account # 0

(* Locals that fit keep fitting when accounts and backends are added. *)
LEMMA LocalGrows ==
    ASSUME NEW q, NEW l, NEW na \in Nat, NEW nb \in Nat, NEW ma \in Nat, NEW mb \in Nat,
           LocalOK(q, l, na, nb), na <= ma, nb <= mb
    PROVE  LocalOK(q, l, ma, mb)
<1>1. 0..na \subseteq 0..ma /\ 1..na \subseteq 1..ma /\ 1..nb \subseteq 1..mb
  OBVIOUS
<1> QED
  BY <1>1 DEF LocalOK

(* The rest of a list is what its first step leaves. *)
LEMMA RestLeft ==
    ASSUME NEW q \in Seq(Step), q # <<>>
    PROVE  Left(q, Tail(q), 1)
<1>1. Tail(q) \in Seq(Step) /\ Len(Tail(q)) = Len(q) - 1 /\ \A i \in 1..Len(Tail(q)) : Tail(q)[i] = q[1 + i]
  OBVIOUS
<1> QED
  BY <1>1 DEF Left

(* The goroutine takes its next step, with the locals m. *)
LEMMA LocalRest ==
    ASSUME NEW q, NEW l, NEW m \in Locals, NEW na \in Nat, NEW nb \in Nat,
           LocalOK(q, l, na, nb), q # <<>>,
           m.op = l.op, m.account \in 0..na, m.queue \subseteq l.queue, m.onError \in {l.onError, "ignore"},
           l.account # 0 => m.account # 0,
           q[1] \in {"install", "build", "unlist"} => m.account # 0,
           q[1] \in {"build", "close"} => m.backend \in 1..nb
    PROVE  LocalOK(Tail(q), m, na, nb)
<1> DEFINE r == Tail(q)
<1>1. q \in Seq(Step) /\ Shaped(q) /\ Left(q, r, 1)
  BY RestLeft DEF LocalOK
<1>2. r \in Seq(Step) /\ Len(r) = Len(q) - 1 /\ \A i \in 1..Len(r) : r[i] = q[1 + i]
  BY <1>1 DEF Left
<1> HIDE DEF r
<1>3. Shaped(r)
  BY <1>1, ShapedLeft
<1>4. r # <<>> => 2 \in 1..Len(q) /\ r[1] = q[2]
  BY <1>1, <1>2
<1>5. Len(r) > 1 => 3 \in 1..Len(q) /\ 2 \in 1..Len(q) /\ 2 < Len(q) /\ r[2] = q[3]
  BY <1>1, <1>2
<1>6. r # <<>> => /\ q[2] \notin LaunchSteps \cup {"abort"}
                  /\ q[2] = "addStart" => q[1] = "install"
                  /\ q[2] = "close" => q[1] = "build"
                  /\ q[2] = "swap" => q[1] = "close"
  BY <1>1, <1>4 DEF Shaped, Follows
<1>7. Len(r) > 1 => (q[3] = "sdk" => q[1] = "unlist")
  <2> SUFFICES ASSUME Len(r) > 1, q[3] = "sdk"
               PROVE  q[1] = "unlist"
    OBVIOUS
  <2>1. q[2] \in {"start", "abort"} \cup LaunchSteps
    BY <1>1, <1>5 DEF Shaped, Follows
  <2>2. q[2] = "start"
    BY <1>1, <1>2, <1>6, <2>1
  <2>3. q[2 + 1] = "sdk"
    OBVIOUS
  <2> QED
    BY <1>1, <1>5, <2>2, <2>3 DEF Shaped, Follows
<1>8. NeedsAccount(r) => m.account # 0
  <2>1. CASE r # <<>> /\ r[1] = "sdk"
    BY <1>1, <1>2, <1>4, <2>1 DEF LocalOK, NeedsAccount
  <2>2. CASE r # <<>> /\ r[1] \in {"addStart", "abort", "close", "swap"}
    BY <1>1, <1>4, <1>6, <2>2 DEF LocalOK, NeedsAccount
  <2>3. CASE Len(r) > 1 /\ r[2] = "sdk"
    BY <1>5, <1>7, <2>3
  <2> QED
    BY <2>1, <2>2, <2>3 DEF NeedsAccount
<1>9. ~Launches(r)
  BY <1>4, <1>6 DEF Launches
<1>10. Rebuilds(r) => m.backend \in 1..nb
  BY <1>4, <1>6 DEF Rebuilds
<1>11. r \in Seq(StepsOf(m.op)) /\ \A k \in 1..Len(r) : r[k] = "gather" => m.account # 0
  <2>1. \A k \in 1..Len(r) : 1 + k \in 1..Len(q)
    BY <1>1, <1>2
  <2>2. q \in Seq(StepsOf(m.op))
    BY DEF LocalOK
  <2>3. r \in Seq(StepsOf(m.op))
    BY <2>2, StepsStay DEF r
  <2> QED
    BY <1>2, <2>1, <2>3 DEF LocalOK
<1>12. m.queue \subseteq 1..na /\ (m.op # "none" => m.queue = {}) /\ (m.op = "none" => m.onError = "ignore")
  BY DEF LocalOK
<1>13. LocalOK(r, m, na, nb)
  BY <1>2, <1>3, <1>8, <1>9, <1>10, <1>11, <1>12 DEF LocalOK
<1> QED
  BY <1>13 DEF r

(* It waits for a client, with the locals m. *)
LEMMA LocalLaunch ==
    ASSUME NEW q, NEW l, NEW m \in Locals, NEW na \in Nat, NEW nb \in Nat, NEW s \in LaunchSteps,
           LocalOK(q, l, na, nb), q # <<>>,
           q[1] \in {"start", "addStart", "restart", "sdk"} \cup LaunchSteps,
           m.op = l.op, m.account = l.account, m.queue = l.queue, m.backend \in 1..nb, m.client # 0,
           m.op = "none" => m.onError = "ignore",
           m.onError = "abort" => q[1] = "addStart" \/ (q[1] \in LaunchSteps /\ l.onError = "abort")
    PROVE  LocalOK(<<s>> \o Tail(q), m, na, nb)
<1> DEFINE r == Tail(q)
           t == <<s>> \o r
<1>1. q \in Seq(Step) /\ Shaped(q) /\ Left(q, r, 1)
  BY RestLeft DEF LocalOK
<1>2. r \in Seq(Step) /\ Len(r) = Len(q) - 1 /\ \A i \in 1..Len(r) : r[i] = q[1 + i]
  BY <1>1 DEF Left
<1>3. q[1] \notin {"store", "build", "close", "install", "unlist"}
  BY DEF LaunchSteps
<1>4. /\ t \in Seq(Step) /\ Len(t) = Len(r) + 1 /\ t[1] = s
      /\ \A i \in 1..Len(r) : t[i + 1] = r[i]
      /\ Shaped(t)
  BY <1>1, <1>3, ShapedFront
<1> HIDE DEF r, t
<1>5. t # <<>> /\ Launches(t) /\ ~Rebuilds(t)
  BY <1>4 DEF Launches, Rebuilds, LaunchSteps
<1>6. NeedsAccount(t) => m.account # 0
  <2>1. ASSUME Len(t) > 1, t[2] = "sdk"
        PROVE  m.account # 0
    <3>0. 1 \in 1..Len(r)
      BY <1>2, <1>4, <2>1
    <3>1. t[1 + 1] = r[1] /\ r[1] = q[1 + 1]
      BY <1>2, <1>4, <3>0
    <3>3. t[2] = t[1 + 1] /\ q[2] = q[1 + 1]
      OBVIOUS
    <3>4. Len(q) > 1
      BY <1>1, <1>2, <3>0
    <3>2. Len(q) > 1 /\ q[2] = "sdk"
      BY <2>1, <3>1, <3>3, <3>4
    <3> QED
      BY <3>2 DEF LocalOK, NeedsAccount
  <2>2. t[1] \notin {"sdk", "addStart", "abort", "close", "swap"}
    BY <1>4 DEF LaunchSteps
  <2> QED
    BY <2>1, <2>2 DEF NeedsAccount
<1>7. m.onError = "abort" => m.account # 0 /\ m.op = "create"
  <2>1. q[1] \in StepsOf(l.op)
    BY StepsStay DEF LocalOK
  <2> QED
    BY <2>1 DEF LocalOK, NeedsAccount, Launches, StepsOf
<1>8. \A k \in 1..Len(t) : t[k] = "gather" => m.account # 0
  <2> SUFFICES ASSUME NEW k \in 1..Len(t), t[k] = "gather"
               PROVE  m.account # 0
    OBVIOUS
  <2>1. k # 1
    BY <1>4 DEF LaunchSteps
  <2>2. k - 1 \in 1..Len(r) /\ (k - 1) + 1 = k /\ 1 + (k - 1) = k /\ k \in 1..Len(q)
    BY <1>1, <1>2, <1>4, <2>1
  <2>3. t[k] = q[k]
    BY <1>2, <1>4, <2>2
  <2> QED
    BY <2>2, <2>3 DEF LocalOK
<1>10. t \in Seq(StepsOf(m.op))
  <2>1. q \in Seq(StepsOf(m.op))
    BY DEF LocalOK
  <2>2. q[1] \in StepsOf(m.op) /\ r \in Seq(StepsOf(m.op))
    BY <2>1, StepsStay DEF r
  <2>3. s \in StepsOf(m.op)
    BY <2>2 DEF StepsOf, LaunchSteps, Step
  <2> QED
    BY <2>2, <2>3, StepsStay DEF t
<1>11. m.queue \subseteq 1..na /\ (m.op # "none" => m.queue = {}) /\ m.account \in 0..na
  BY DEF LocalOK
<1>9. LocalOK(t, m, na, nb)
  BY <1>4, <1>5, <1>6, <1>7, <1>8, <1>10, <1>11 DEF LocalOK
<1> QED
  BY <1>9 DEF t, r

(* RebuildBackend is over before its end. *)
LEMMA AfterRebuildLeft ==
    ASSUME NEW q \in Seq(Step), q # <<>>, Shaped(q), q[1] \in RebuildSteps
    PROVE  \E d \in 2..Len(q) : q[d] = "restart" /\ Left(q, AfterRebuild(Tail(q)), d)
<1> DEFINE r == Tail(q)
           i == CHOOSE i \in DOMAIN r : r[i] = "restart"
<1>1. r \in Seq(Step) /\ Len(r) = Len(q) - 1 /\ DOMAIN r = 1..Len(r) /\ \A k \in 1..Len(r) : r[k] = q[1 + k]
  OBVIOUS
<1>2. PICK j \in 1..Len(q) : q[j] = "restart"
  BY DEF Shaped
<1>3. j - 1 \in 1..Len(r) /\ 1 + (j - 1) = j
  BY <1>1, <1>2 DEF RebuildSteps
<1>4. r[j - 1] = "restart"
  BY <1>1, <1>2, <1>3
<1>5. i \in 1..Len(r) /\ r[i] = "restart"
  BY <1>1, <1>3, <1>4
<1>6. AfterRebuild(Tail(q)) = SubSeq(r, i + 1, Len(r))
  BY DEF AfterRebuild
<1> HIDE DEF r, i
<1>7. i + 1 \in 2..Len(q) /\ q[i + 1] = "restart"
  <2>1. r[i] = q[1 + i] /\ 1 + i = i + 1
    BY <1>1, <1>5
  <2> QED
    BY <1>1, <1>5, <2>1
<1> DEFINE t == SubSeq(r, i + 1, Len(r))
<1>8. t \in Seq(Step) /\ Len(t) = Len(r) - i /\ \A k \in 1..(Len(r) - i) : t[k] = r[i + k]
  <2>1. i + 1 \in 1..(Len(r) + 1) /\ Len(r) \in i..Len(r)
    BY <1>1, <1>5
  <2> QED
    BY <1>1, <1>5, <2>1, SubSeqProperties
<1> HIDE DEF t
<1>9. \A k \in 1..Len(t) : t[k] = q[(i + 1) + k]
  <2> TAKE k \in 1..Len(t)
  <2>1. i + k \in 1..Len(r) /\ 1 + (i + k) = (i + 1) + k /\ k \in 1..(Len(r) - i)
    BY <1>1, <1>5, <1>8
  <2> QED
    BY <1>1, <1>8, <2>1
<1>10. i + 1 \in 0..Len(q) /\ Len(t) = Len(q) - (i + 1)
  BY <1>1, <1>5, <1>7, <1>8
<1>11. Left(q, t, i + 1)
  BY <1>8, <1>9, <1>10 DEF Left
<1> QED
  BY <1>6, <1>7, <1>11 DEF t

(* RebuildBackend ends early, with the locals as they are; a logout without   *)
(* a token in memory still drops the login state.                             *)
LEMMA LocalAfterRebuild ==
    ASSUME NEW q, NEW l, NEW na \in Nat, NEW nb \in Nat,
           LocalOK(q, l, na, nb), q # <<>>, q[1] \in RebuildSteps
    PROVE  /\ LocalOK(AfterRebuild(Tail(q)), l, na, nb)
           /\ q[1] = "clear" => LocalOK(<<"dropState">> \o AfterRebuild(Tail(q)), l, na, nb)
<1> DEFINE r == AfterRebuild(Tail(q))
           t == <<"dropState">> \o r
<1>1. q \in Seq(Step) /\ Shaped(q)
  BY DEF LocalOK
<1>2. PICK d \in 2..Len(q) : q[d] = "restart" /\ Left(q, r, d)
  BY <1>1, AfterRebuildLeft
<1>3. r \in Seq(Step) /\ Len(r) = Len(q) - d /\ \A i \in 1..Len(r) : r[i] = q[d + i]
  BY <1>2 DEF Left
<1>4. Shaped(r)
  BY <1>1, <1>2, ShapedLeft
<1>5. /\ t \in Seq(Step) /\ Len(t) = Len(r) + 1 /\ t[1] = "dropState"
      /\ \A i \in 1..Len(r) : t[i + 1] = r[i]
      /\ Shaped(t)
  BY <1>1, <1>2, ShapedFront
<1> HIDE DEF r, t
<1>6. /\ r \in Seq(StepsOf(l.op))
      /\ q[1] = "clear" => t \in Seq(StepsOf(l.op))
      /\ \A i \in 1..Len(r) : r[i] # "gather"
      /\ \A i \in 1..Len(t) : t[i] # "gather"
      /\ l.op # "none"
  <2>1. q \in Seq(StepsOf(l.op)) /\ q[1] \in StepsOf(l.op)
    BY StepsStay DEF LocalOK
  <2>2. r \in Seq(StepsOf(l.op))
    <3>1. d \in Nat
      BY <1>2
    <3> QED
      BY ONLY <1>3, <2>1, <3>1, LeftStays, SMTT(30)
  <2>3. q[1] = "clear" => "dropState" \in StepsOf(l.op)
    BY <2>1 DEF StepsOf, Step
  <2>4. q[1] = "clear" => t \in Seq(StepsOf(l.op))
    BY <2>2, <2>3, StepsStay DEF t
  <2>5. l.op # "none"
    BY <2>1 DEF StepsOf, RebuildSteps, LaunchSteps
  <2>6. \A i \in 1..Len(r) : r[i] \in StepsOf(l.op)
    BY <2>2, StepsStay
  <2>7. \A i \in 1..Len(r) : r[i] # "gather"
    BY <2>5, <2>6 DEF StepsOf
  <2>8. ASSUME NEW i \in 1..Len(t)
        PROVE  t[i] # "gather"
    <3>1. i # 1 => i - 1 \in 1..Len(r) /\ (i - 1) + 1 = i
      BY <1>5
    <3> QED
      BY <1>5, <2>7, <3>1
  <2> QED
    BY <2>2, <2>4, <2>5, <2>7, <2>8
<1>7. r # <<>> => d + 1 \in 1..Len(q) /\ r[1] = q[d + 1] /\ (d + 1) - 1 = d /\ d + 1 # 1
  BY <1>1, <1>3
<1>8. Len(r) > 1 => d + 1 < Len(q) /\ r[2] = q[(d + 1) + 1]
  BY <1>1, <1>3
<1> DEFINE k == d + 1
<1>9. r # <<>> => /\ q[k] = "close" => Follows(q, k, {"build"})
                  /\ q[k] = "swap" => Follows(q, k, {"close"})
                  /\ q[k] = "addStart" => Follows(q, k, {"install"})
                  /\ q[k] = "sdk" => Follows(q, k, {"start", "abort"} \cup LaunchSteps)
                  /\ q[k] = "start" /\ k < Len(q) /\ q[k + 1] = "sdk" => Follows(q, k, {"unlist"})
                  /\ q[k] \in LaunchSteps \cup {"abort"} => k = 1
  BY <1>1, <1>7 DEF Shaped
<1>10. Len(r) > 1 /\ r[2] = "sdk" => r[1] \in {"start", "abort"} \cup LaunchSteps
  BY <1>3, <1>4 DEF Shaped, Follows
<1>11. r # <<>> => k # 1 /\ k - 1 = d /\ r[1] = q[k]
  BY <1>7
<1>12. Len(r) > 1 => k < Len(q) /\ r[2] = q[k + 1]
  BY <1>8
<1> HIDE DEF k
<1>13. ~Launches(r) /\ ~Rebuilds(r)
  BY <1>2, <1>9, <1>11 DEF Follows, Launches, Rebuilds, LaunchSteps
<1>14. ~NeedsAccount(r)
  <2>1. r # <<>> => r[1] \notin {"sdk", "addStart", "abort", "close", "swap"}
    BY <1>2, <1>9, <1>11 DEF Follows, LaunchSteps
  <2>2. Len(r) > 1 => r # <<>>
    BY <1>3
  <2>3. Len(r) > 1 => r[2] # "sdk"
    BY <1>2, <1>9, <1>10, <1>11, <1>12, <2>2 DEF Follows
  <2> QED
    BY <2>1, <2>3 DEF NeedsAccount
<1>15. ~NeedsAccount(t)
  <2>1. Len(t) > 1 => 1 \in 1..Len(r) /\ r # <<>> /\ t[1 + 1] = r[1]
    BY <1>3, <1>5
  <2>2. Len(t) > 1 => t[2] # "sdk"
    BY <1>14, <2>1 DEF NeedsAccount
  <2> QED
    BY <1>5, <2>2 DEF NeedsAccount
<1>16. ~Launches(t) /\ ~Rebuilds(t)
  BY <1>5 DEF Launches, Rebuilds, LaunchSteps
<1>17. l \in Locals /\ l.account \in 0..na /\ l.queue \subseteq 1..na /\ (l.op # "none" => l.queue = {})
  BY DEF LocalOK
<1>18. LocalOK(r, l, na, nb)
  BY <1>3, <1>4, <1>6, <1>13, <1>14, <1>17 DEF LocalOK
<1>19. q[1] = "clear" => LocalOK(t, l, na, nb)
  BY <1>5, <1>6, <1>15, <1>16, <1>17 DEF LocalOK
<1> QED
  BY <1>18, <1>19 DEF r, t

(* A list of one step, or of the steps of RefreshAccount. *)
LEMMA LocalList ==
    ASSUME NEW l \in Locals, NEW na \in Nat, NEW nb \in Nat, l.account \in 0..na, l.queue = {}, l.op # "none"
    PROVE  /\ LocalOK(<<>>, l, na, nb)
           /\ LocalOK(RefreshAccount, l, na, nb)
           /\ l.account # 0 /\ l.op = "create" => LocalOK(<<"abort">>, l, na, nb)
<1> USE DEF LocalOK, NeedsAccount, Launches, Rebuilds, LaunchSteps
<1>1. LocalOK(<<>>, l, na, nb)
  BY DEF Shaped
<1>2. /\ RefreshAccount \in Seq(Step) /\ Len(RefreshAccount) = 4 /\ RefreshAccount[1] = "unlist"
      /\ RefreshAccount[2] = "start" /\ RefreshAccount[3] = "sdk" /\ RefreshAccount[4] = "list"
  BY DEF RefreshAccount, Step
<1>6. RefreshAccount \in Seq(StepsOf(l.op))
  <2>1. {"unlist", "start", "sdk", "list"} \subseteq StepsOf(l.op)
    BY DEF StepsOf, Step
  <2> QED
    BY <2>1 DEF RefreshAccount
<1>3. LocalOK(RefreshAccount, l, na, nb)
  BY <1>2, <1>6, ShapedParts
<1>4. Shaped(<<"abort">>) /\ <<"abort">> \in Seq(Step)
  BY DEF Shaped, Follows, RebuildSteps, Step
<1>7. l.op = "create" => "abort" \in StepsOf(l.op)
  BY DEF StepsOf, Step
<1>8. l.op = "create" => <<"abort">> \in Seq(StepsOf(l.op))
  BY <1>7
<1>5. l.account # 0 /\ l.op = "create" => LocalOK(<<"abort">>, l, na, nb)
  BY <1>4, <1>8
<1> QED
  BY <1>1, <1>3, <1>5

(* The lists of RefreshLoop. *)
LEMMA LocalLoop ==
    ASSUME NEW l \in Locals, NEW na \in Nat, NEW nb \in Nat, l.account \in 0..na, l.queue \subseteq 1..na,
           l.op = "none", l.onError = "ignore"
    PROVE  /\ LocalOK(<<>>, l, na, nb)
           /\ LocalOK(<<"visit">>, l, na, nb)
           /\ l.account # 0 => LocalOK(<<"sdk", "gather", "visit">>, l, na, nb)
<1> USE DEF LocalOK, NeedsAccount, Launches, Rebuilds, LaunchSteps
<1>1. LocalOK(<<>>, l, na, nb)
  BY DEF Shaped
<1>2. Shaped(<<"visit">>) /\ <<"visit">> \in Seq(Step)
  BY DEF Shaped, Follows, RebuildSteps, Step
<1>6. {"visit", "sdk", "gather"} \subseteq StepsOf(l.op)
  BY DEF StepsOf, Step
<1>7. <<"visit">> \in Seq(StepsOf(l.op)) /\ <<"sdk", "gather", "visit">> \in Seq(StepsOf(l.op))
  BY <1>6
<1>3. LocalOK(<<"visit">>, l, na, nb)
  BY <1>2, <1>7
<1>4. Shaped(<<"sdk", "gather", "visit">>) /\ <<"sdk", "gather", "visit">> \in Seq(Step)
  BY DEF Shaped, Follows, RebuildSteps, Step
<1>5. l.account # 0 => LocalOK(<<"sdk", "gather", "visit">>, l, na, nb)
  BY <1>4, <1>7
<1> QED
  BY <1>1, <1>3, <1>5

(* A handler begins. *)
LEMMA LocalBegin ==
    ASSUME NEW op \in Operation, NEW l \in Locals, NEW na \in Nat, NEW nb \in Nat,
           l.account \in 0..na, l.queue = {}, l.op = op, op = "chat" => l.account # 0
    PROVE  LocalOK(Program(op), l, na, nb)
<1> DEFINE q == Program(op)
<1>1. q \in Seq(Step) /\ q # <<>> /\ Shaped(q)
  BY ShapedPrograms
<1>2. q[1] \in {"enable", "disable", "store", "clear", "issue", "look", "unlist", "sdk"} /\ (q[1] = "sdk" => op = "chat")
  BY ShapedPrograms
<1> HIDE DEF q
<1>3. Len(q) > 1 => q[2] # "sdk"
  BY <1>1, <1>2 DEF Shaped, Follows, LaunchSteps
<1>4. ~Launches(q) /\ ~Rebuilds(q) /\ (NeedsAccount(q) => op = "chat")
  BY <1>2, <1>3 DEF Launches, Rebuilds, LaunchSteps, NeedsAccount
<1>5. op # "none"
  BY DEF Operation
<1>7. q \in Seq(StepsOf(op))
  BY ProgramSteps DEF q
<1>8. \A k \in 1..Len(q) : q[k] # "gather"
  <2>1. \A k \in 1..Len(q) : q[k] \in StepsOf(op)
    BY <1>7, StepsStay
  <2> QED
    BY <1>5, <2>1 DEF StepsOf
<1>6. LocalOK(q, l, na, nb)
  BY <1>1, <1>4, <1>5, <1>7, <1>8 DEF LocalOK
<1> QED
  BY <1>6 DEF q

-----------------------------------------------------------------------------
(* What an update of one object leaves of the objects. *)

(* The elements of a sequence are in its range. *)
LEMMA Elements ==
    ASSUME NEW S, NEW q \in Seq(S)
    PROVE  DOMAIN q = 1..Len(q) /\ Len(q) \in Nat /\ \A i \in 1..Len(q) : q[i] \in S
OBVIOUS

(* An element of a sequence is replaced. *)
LEMMA Replaced ==
    ASSUME NEW S, NEW q \in Seq(S), NEW n \in Nat, NEW x, n \in 1..Len(q) => x \in S
    PROVE  /\ [q EXCEPT ![n] = x] \in Seq(S)
           /\ Len([q EXCEPT ![n] = x]) = Len(q)
           /\ \A i \in 1..Len(q) : [q EXCEPT ![n] = x][i] = IF i = n THEN x ELSE q[i]
<1> DEFINE r == [q EXCEPT ![n] = x]
<1>1. DOMAIN q = 1..Len(q) /\ Len(q) \in Nat
  OBVIOUS
<1>2. r = [i \in 1..Len(q) |-> IF i = n THEN x ELSE q[i]]
  BY <1>1
<1> HIDE DEF r
<1>3. \A i \in 1..Len(q) : r[i] = (IF i = n THEN x ELSE q[i]) /\ r[i] \in S
  BY <1>2
<1>4. r \in Seq(S) /\ Len(r) = Len(q)
  BY <1>1, <1>2, <1>3
<1> QED
  BY <1>3, <1>4 DEF r

(* The updates of one account or one backend. *)
EnabledSet(s, q, n)         == \E e \in BOOLEAN : s = [q EXCEPT ![n].enabled = e]
TokenSet(s, q, n, t)        == s = [q EXCEPT ![n].token = t]
BackendSet(s, q, n, b)      == s = [q EXCEPT ![n].backend = b]
ReadyAt(s, q, n)            == s = [q EXCEPT ![n].ready = TRUE]
UnreadyAt(s, q, n)          == s = [q EXCEPT ![n].ready = FALSE]
ClosedAt(s, q, n)           == s = [q EXCEPT ![n].client = 0, ![n].ready = FALSE]
ClientMade(s, q, n, k, m)   == s = [q EXCEPT ![n].client = k, ![n].made = m]

(* SetEnabled: the account keeps its id, token and backend. *)
LEMMA AccountEnabled ==
    ASSUME NEW q \in Seq(AccountRecord), NEW n \in Nat, NEW s, EnabledSet(s, q, n)
    PROVE  /\ s \in Seq(AccountRecord) /\ Len(s) = Len(q)
           /\ \A i \in 1..Len(q) : s[i].id = q[i].id /\ s[i].token = q[i].token /\ s[i].backend = q[i].backend
<1>0. PICK e \in BOOLEAN : s = [q EXCEPT ![n].enabled = e]
  BY DEF EnabledSet
<1> DEFINE x == [q[n] EXCEPT !.enabled = e]
           r == [q EXCEPT ![n] = x]
<1>1. \A i \in 1..Len(q) : q[i] \in AccountRecord
  BY Elements
<1>2. n \in 1..Len(q) => x \in AccountRecord /\ x.id = q[n].id /\ x.token = q[n].token /\ x.backend = q[n].backend
  BY <1>1 DEF AccountRecord
<1>3. s = r
  BY <1>0
<1> HIDE DEF x
<1>4. /\ r \in Seq(AccountRecord) /\ Len(r) = Len(q)
      /\ \A i \in 1..Len(q) : r[i] = IF i = n THEN x ELSE q[i]
  BY <1>2, Replaced
<1> HIDE DEF r
<1> QED
  BY <1>2, <1>3, <1>4

(* A token of an account is set: nothing else of the accounts changes. *)
LEMMA AccountToken ==
    ASSUME NEW q \in Seq(AccountRecord), NEW n \in Nat, NEW t \in Tokens,
           NEW s, TokenSet(s, q, n, t)
    PROVE  /\ s \in Seq(AccountRecord) /\ Len(s) = Len(q)
           /\ \A i \in 1..Len(q) : /\ s[i].id = q[i].id /\ s[i].enabled = q[i].enabled
                                   /\ s[i].backend = q[i].backend
                                   /\ s[i].token = IF i = n THEN t ELSE q[i].token
<1> DEFINE x == [q[n] EXCEPT !.token = t]
           r == [q EXCEPT ![n] = x]
<1>1. \A i \in 1..Len(q) : q[i] \in AccountRecord
  BY Elements
<1>2. n \in 1..Len(q) => /\ x \in AccountRecord /\ x.id = q[n].id /\ x.enabled = q[n].enabled
                         /\ x.backend = q[n].backend /\ x.token = t
  BY <1>1 DEF AccountRecord
<1>3. s = r
  BY DEF TokenSet
<1> HIDE DEF x
<1>4. /\ r \in Seq(AccountRecord) /\ Len(r) = Len(q)
      /\ \A i \in 1..Len(q) : r[i] = IF i = n THEN x ELSE q[i]
  BY <1>2, Replaced
<1> HIDE DEF r
<1> QED
  BY <1>2, <1>3, <1>4

(* RebuildBackend: nothing but the backend of one account changes. *)
LEMMA AccountBackend ==
    ASSUME NEW q \in Seq(AccountRecord), NEW n \in Nat, NEW b \in Nat,
           NEW s, BackendSet(s, q, n, b)
    PROVE  /\ s \in Seq(AccountRecord) /\ Len(s) = Len(q)
           /\ \A i \in 1..Len(q) : /\ s[i].id = q[i].id /\ s[i].enabled = q[i].enabled
                                   /\ s[i].token = q[i].token
                                   /\ s[i].backend = IF i = n THEN b ELSE q[i].backend
<1> DEFINE x == [q[n] EXCEPT !.backend = b]
           r == [q EXCEPT ![n] = x]
<1>1. \A i \in 1..Len(q) : q[i] \in AccountRecord
  BY Elements
<1>2. n \in 1..Len(q) => /\ x \in AccountRecord /\ x.id = q[n].id /\ x.enabled = q[n].enabled
                         /\ x.token = q[n].token /\ x.backend = b
  BY <1>1 DEF AccountRecord
<1>3. s = r
  BY DEF BackendSet
<1> HIDE DEF x
<1>4. /\ r \in Seq(AccountRecord) /\ Len(r) = Len(q)
      /\ \A i \in 1..Len(q) : r[i] = IF i = n THEN x ELSE q[i]
  BY <1>2, Replaced
<1> HIDE DEF r
<1> QED
  BY <1>2, <1>3, <1>4

(* Start marks a backend ready: nothing else of the backends changes. *)
LEMMA BackendReady ==
    ASSUME NEW q \in Seq(BackendRecord), NEW n \in Nat, NEW s, ReadyAt(s, q, n)
    PROVE  /\ s \in Seq(BackendRecord) /\ Len(s) = Len(q)
           /\ \A i \in 1..Len(q) : /\ s[i].token = q[i].token /\ s[i].client = q[i].client
                                   /\ (i = n => s[i].ready) /\ (i # n => s[i].ready = q[i].ready)
<1> DEFINE x == [q[n] EXCEPT !.ready = TRUE]
           r == [q EXCEPT ![n] = x]
<1>1. \A i \in 1..Len(q) : q[i] \in BackendRecord
  BY Elements
<1>2. n \in 1..Len(q) => x \in BackendRecord /\ x.token = q[n].token /\ x.client = q[n].client /\ x.ready = TRUE
  BY <1>1 DEF BackendRecord
<1>3. s = r
  BY DEF ReadyAt
<1> HIDE DEF x
<1>4. /\ r \in Seq(BackendRecord) /\ Len(r) = Len(q)
      /\ \A i \in 1..Len(q) : r[i] = IF i = n THEN x ELSE q[i]
  BY <1>2, Replaced
<1> HIDE DEF r
<1> QED
  BY <1>2, <1>3, <1>4

(* Start marks a backend not ready: nothing else of the backends changes. *)
LEMMA BackendUnready ==
    ASSUME NEW q \in Seq(BackendRecord), NEW n \in Nat, NEW s, UnreadyAt(s, q, n)
    PROVE  /\ s \in Seq(BackendRecord) /\ Len(s) = Len(q)
           /\ \A i \in 1..Len(q) : /\ s[i].token = q[i].token /\ s[i].client = q[i].client
                                   /\ (i = n => ~s[i].ready) /\ (i # n => s[i].ready = q[i].ready)
<1> DEFINE x == [q[n] EXCEPT !.ready = FALSE]
           r == [q EXCEPT ![n] = x]
<1>1. \A i \in 1..Len(q) : q[i] \in BackendRecord
  BY Elements
<1>2. n \in 1..Len(q) => x \in BackendRecord /\ x.token = q[n].token /\ x.client = q[n].client /\ x.ready = FALSE
  BY <1>1 DEF BackendRecord
<1>3. s = r
  BY DEF UnreadyAt
<1> HIDE DEF x
<1>4. /\ r \in Seq(BackendRecord) /\ Len(r) = Len(q)
      /\ \A i \in 1..Len(q) : r[i] = IF i = n THEN x ELSE q[i]
  BY <1>2, Replaced
<1> HIDE DEF r
<1> QED
  BY <1>2, <1>3, <1>4

(* Close: the backend has no client and is not ready; the others stay. *)
LEMMA BackendClosed ==
    ASSUME NEW q \in Seq(BackendRecord), NEW n \in Nat,
           NEW s, ClosedAt(s, q, n)
    PROVE  /\ s \in Seq(BackendRecord) /\ Len(s) = Len(q)
           /\ \A i \in 1..Len(q) : /\ s[i].token = q[i].token
                                   /\ s[i].client = IF i = n THEN 0 ELSE q[i].client
                                   /\ (i = n => ~s[i].ready) /\ (i # n => s[i].ready = q[i].ready)
<1> DEFINE x == [q[n] EXCEPT !.client = 0, !.ready = FALSE]
           r == [q EXCEPT ![n] = x]
<1>1. \A i \in 1..Len(q) : q[i] \in BackendRecord
  BY Elements
<1>2. n \in 1..Len(q) => /\ x \in BackendRecord /\ x.token = q[n].token /\ x.client = 0 /\ x.ready = FALSE
  BY <1>1 DEF BackendRecord
<1>3. s = r
  <2>1. DOMAIN q = 1..Len(q)
    OBVIOUS
  <2> QED
    BY <1>1, <2>1 DEF BackendRecord, ClosedAt
<1> HIDE DEF x
<1>4. /\ r \in Seq(BackendRecord) /\ Len(r) = Len(q)
      /\ \A i \in 1..Len(q) : r[i] = IF i = n THEN x ELSE q[i]
  BY <1>2, Replaced
<1> HIDE DEF r
<1> QED
  BY <1>2, <1>3, <1>4

(* Start makes a client: tokens and readiness stay. *)
LEMMA BackendMade ==
    ASSUME NEW q \in Seq(BackendRecord), NEW n \in 1..Len(q), NEW k \in Nat, NEW m \in Nat,
           NEW s, ClientMade(s, q, n, k, m)
    PROVE  /\ s \in Seq(BackendRecord) /\ Len(s) = Len(q)
           /\ \A i \in 1..Len(q) : /\ s[i].token = q[i].token /\ s[i].ready = q[i].ready
                                   /\ s[i].client = IF i = n THEN k ELSE q[i].client
<1> DEFINE x == [q[n] EXCEPT !.client = k, !.made = m]
           r == [q EXCEPT ![n] = x]
<1>1. \A i \in 1..Len(q) : q[i] \in BackendRecord
  BY Elements
<1>2. x \in BackendRecord /\ x.token = q[n].token /\ x.client = k /\ x.ready = q[n].ready
  BY <1>1 DEF BackendRecord
<1>3. s = r
  <2>1. DOMAIN q = 1..Len(q)
    OBVIOUS
  <2> QED
    BY <1>1, <2>1 DEF BackendRecord, ClientMade
<1> HIDE DEF x
<1>4. /\ r \in Seq(BackendRecord) /\ Len(r) = Len(q)
      /\ \A i \in 1..Len(q) : r[i] = IF i = n THEN x ELSE q[i]
  BY <1>2, Replaced
<1> HIDE DEF r
<1> QED
  BY <1>2, <1>3, <1>4

FlowSet(s, q, n) == \/ \E v \in {"pending", "expired", "authorized", "error"} : s = [q EXCEPT ![n].status = v]
                    \/ s = [q EXCEPT ![n].used = TRUE]

(* A device login gets a status or is used: the logins stay logins. *)
LEMMA FlowSettled ==
    ASSUME NEW q \in Seq(FlowRecord), NEW n \in Nat, NEW s, FlowSet(s, q, n)
    PROVE  s \in Seq(FlowRecord)
<1>1. \A i \in 1..Len(q) : q[i] \in FlowRecord
  BY Elements
<1>2. ASSUME NEW v \in {"pending", "expired", "authorized", "error"}, s = [q EXCEPT ![n].status = v]
      PROVE  s \in Seq(FlowRecord)
  <2> DEFINE x == [q[n] EXCEPT !.status = v]
  <2>1. n \in 1..Len(q) => x \in FlowRecord
    BY <1>1 DEF FlowRecord
  <2>2. s = [q EXCEPT ![n] = x]
    BY <1>2
  <2> HIDE DEF x
  <2> QED
    BY <2>1, <2>2, Replaced
<1>3. ASSUME s = [q EXCEPT ![n].used = TRUE]
      PROVE  s \in Seq(FlowRecord)
  <2> DEFINE x == [q[n] EXCEPT !.used = TRUE]
  <2>1. n \in 1..Len(q) => x \in FlowRecord
    BY <1>1 DEF FlowRecord
  <2>2. s = [q EXCEPT ![n] = x]
    BY <1>3
  <2> HIDE DEF x
  <2> QED
    BY <2>1, <2>2, Replaced
<1> QED
  BY <1>2, <1>3 DEF FlowSet

-----------------------------------------------------------------------------
(* Types, and what every step list and every set of locals satisfies. *)

TypeOK ==
    /\ account \in Seq(AccountRecord) /\ back \in Seq(BackendRecord) /\ flow \in Seq(FlowRecord)
    /\ running \in SUBSET (Nat \X Nat)
    /\ pool \in [Id -> 0..Len(account)] /\ vault \in [Id -> Tokens] /\ states \in [Id -> Nat]
    /\ index \in SUBSET Id /\ cleared \in SUBSET Id /\ raced \in BOOLEAN /\ scene \in Scenes
    /\ todo \in [Goroutine -> Seq(Step)] /\ me \in [Goroutine -> Locals]

BackendsMade == \A n \in 1..Len(account) : account[n].backend \in 1..Len(back)
GoroutinesOK == \A w \in Goroutine : LocalOK(todo[w], me[w], Len(account), Len(back))

BaseInv == TypeOK /\ BackendsMade /\ GoroutinesOK

(* A goroutine between two handlers fits every account list. *)
LEMMA NoLocalsOK ==
    ASSUME NEW na \in Nat, NEW nb \in Nat
    PROVE  NoLocals \in Locals /\ LocalOK(<<>>, NoLocals, na, nb)
<1>1. (CHOOSE i \in Id : TRUE) \in Id
  BY AdministrationAssumption
<1>2. NoLocals \in Locals
  BY <1>1 DEF NoLocals, Locals, Tokens, Operation
<1>3. NoLocals.account = 0 /\ NoLocals.queue = {} /\ NoLocals.op = "none" /\ NoLocals.onError = "ignore"
  BY DEF NoLocals
<1> QED
  BY <1>2, <1>3, LocalLoop

(* One goroutine goes on; the others keep what they had. *)
LEMMA Proceeded ==
    ASSUME TypeOK, NEW w \in Goroutine, NEW q, NEW l, Proceed(w, q, l), q \in Seq(Step), l \in Locals
    PROVE  /\ todo' \in [Goroutine -> Seq(Step)] /\ me' \in [Goroutine -> Locals] /\ cleared' \in SUBSET Id
           /\ todo'[w] = q /\ me'[w] = IF q = <<>> THEN NoLocals ELSE l
           /\ \A v \in Goroutine \ {w} : todo'[v] = todo[v] /\ me'[v] = me[v]
<1>1. todo \in [Goroutine -> Seq(Step)] /\ me \in [Goroutine -> Locals] /\ cleared \in SUBSET Id
  BY DEF TypeOK
<1>2. todo' = [todo EXCEPT ![w] = q] /\ me' = [me EXCEPT ![w] = IF q = <<>> THEN NoLocals ELSE l]
  BY DEF Proceed
<1>3. (IF q = <<>> THEN NoLocals ELSE l) \in Locals
  BY NoLocalsOK
<1>4. me[w].id \in Id
  BY <1>1 DEF Locals
<1>5. cleared' \in SUBSET Id
  BY <1>1, <1>4 DEF Proceed
<1> QED
  BY <1>1, <1>2, <1>3, <1>5

(* The objects made so far stay; new ones may join them. *)
Grows == Len(account) <= Len(account') /\ Len(back) <= Len(back')

(* One goroutine takes a step and the others wait: all fit afterwards. *)
LEMMA GoroutinesGoOn ==
    ASSUME TypeOK, GoroutinesOK, NEW w \in Goroutine, NEW q, NEW l, Proceed(w, q, l), Grows,
           account' \in Seq(AccountRecord), back' \in Seq(BackendRecord),
           LocalOK(q, l, Len(account'), Len(back'))
    PROVE  GoroutinesOK' /\ todo' \in [Goroutine -> Seq(Step)] /\ me' \in [Goroutine -> Locals] /\ cleared' \in SUBSET Id
<1>1. q \in Seq(Step) /\ l \in Locals
  BY DEF LocalOK
<1>2. Len(account') \in Nat /\ Len(back') \in Nat /\ Len(account) \in Nat /\ Len(back) \in Nat
  BY Elements DEF TypeOK
<1>3. /\ todo' \in [Goroutine -> Seq(Step)] /\ me' \in [Goroutine -> Locals] /\ cleared' \in SUBSET Id
      /\ todo'[w] = q /\ me'[w] = IF q = <<>> THEN NoLocals ELSE l
      /\ \A v \in Goroutine \ {w} : todo'[v] = todo[v] /\ me'[v] = me[v]
  BY <1>1, Proceeded
<1>4. ASSUME NEW v \in Goroutine
      PROVE  LocalOK(todo'[v], me'[v], Len(account'), Len(back'))
  <2>1. CASE v = w /\ q = <<>>
    BY <1>2, <1>3, <2>1, NoLocalsOK
  <2>2. CASE v = w /\ q # <<>>
    BY <1>3, <2>2
  <2>3. CASE v # w
    <3>1. LocalOK(todo[v], me[v], Len(account), Len(back))
      BY DEF GoroutinesOK
    <3>2. todo'[v] = todo[v] /\ me'[v] = me[v]
      BY <1>3, <2>3
    <3> QED
      BY <1>2, <3>1, <3>2, LocalGrows DEF Grows
  <2> QED
    BY <2>1, <2>2, <2>3
<1> QED
  BY <1>3, <1>4 DEF GoroutinesOK

(* The first step of a goroutine, and what LocalRest asks of it. *)
LEMMA AtStep ==
    ASSUME TypeOK, GoroutinesOK, NEW w \in Goroutine, NEW s, At(w, s)
    PROVE  /\ todo[w] \in Seq(Step) /\ todo[w] # <<>> /\ todo[w][1] = s /\ me[w] \in Locals
           /\ LocalOK(todo[w], me[w], Len(account), Len(back))
           /\ me[w].account \in 0..Len(account) /\ me[w].queue \subseteq 1..Len(account)
           /\ Len(account) \in Nat /\ Len(back) \in Nat /\ me[w].id \in Id
<1>1. todo[w] \in Seq(Step) /\ me[w] \in Locals /\ LocalOK(todo[w], me[w], Len(account), Len(back))
  BY DEF TypeOK, GoroutinesOK
<1>2. me[w].id \in Id
  BY <1>1 DEF Locals
<1>3. todo[w] # <<>> /\ todo[w][1] = s
  BY <1>1 DEF At
<1> QED
  BY <1>1, <1>2, <1>3, Elements DEF LocalOK, TypeOK

(* The rest of a handler fits after a step that makes neither an account      *)
(* nor a backend.                                                             *)
LEMMA ContinueOK ==
    ASSUME TypeOK, GoroutinesOK, NEW w \in Goroutine, NEW s, At(w, s), NEW m \in Locals,
           s \notin {"install", "build", "unlist"}, s = "close" => m.backend = me[w].backend,
           m.op = me[w].op, m.account = me[w].account, m.queue \subseteq me[w].queue,
           m.onError \in {me[w].onError, "ignore"}
    PROVE  LocalOK(Rest(w), m, Len(account), Len(back))
<1>1. /\ todo[w] \in Seq(Step) /\ todo[w] # <<>> /\ todo[w][1] = s /\ me[w] \in Locals
      /\ LocalOK(todo[w], me[w], Len(account), Len(back))
      /\ me[w].account \in 0..Len(account) /\ Len(account) \in Nat /\ Len(back) \in Nat
  BY AtStep
<1>2. s = "close" => m.backend \in 1..Len(back)
  BY <1>1 DEF LocalOK, Rebuilds
<1> QED
  BY <1>1, <1>2, LocalRest DEF Rest

(* The end of a handler fits. *)
LEMMA ReturnOK ==
    ASSUME TypeOK, GoroutinesOK, NEW w \in Goroutine
    PROVE  LocalOK(<<>>, me[w], Len(account), Len(back))
<1>1. LocalOK(todo[w], me[w], Len(account), Len(back)) /\ me[w] \in Locals
  BY DEF TypeOK, GoroutinesOK
<1>2. Shaped(<<>>) /\ ~NeedsAccount(<<>>) /\ ~Launches(<<>>) /\ ~Rebuilds(<<>>) /\ <<>> \in Seq(Step)
  BY DEF Shaped, NeedsAccount, Launches, Rebuilds
<1> QED
  BY <1>1, <1>2 DEF LocalOK

(* The objects and the maps, apart from what the goroutines hold. *)
ObjectsOK ==
    /\ account \in Seq(AccountRecord) /\ back \in Seq(BackendRecord) /\ flow \in Seq(FlowRecord)
    /\ running \in SUBSET (Nat \X Nat)
    /\ pool \in [Id -> 0..Len(account)] /\ vault \in [Id -> Tokens] /\ states \in [Id -> Nat]
    /\ index \in SUBSET Id /\ raced \in BOOLEAN /\ scene \in Scenes
    /\ BackendsMade

(* BaseInv has what it says of the objects. *)
LEMMA ObjectsAreOK ==
    ASSUME BaseInv
    PROVE  ObjectsOK
BY DEF BaseInv, TypeOK, ObjectsOK

(* A step that keeps the objects well formed keeps BaseInv. *)
LEMMA Stepped ==
    ASSUME BaseInv, NEW w \in Goroutine, NEW q, NEW l, Proceed(w, q, l), Grows, ObjectsOK',
           LocalOK(q, l, Len(account'), Len(back'))
    PROVE  BaseInv'
<1>1. /\ account' \in Seq(AccountRecord) /\ back' \in Seq(BackendRecord) /\ flow' \in Seq(FlowRecord)
      /\ running' \in SUBSET (Nat \X Nat)
      /\ pool' \in [Id -> 0..Len(account')] /\ vault' \in [Id -> Tokens] /\ states' \in [Id -> Nat]
      /\ index' \in SUBSET Id /\ raced' \in BOOLEAN /\ scene' \in Scenes
      /\ BackendsMade'
  BY DEF ObjectsOK
<1>2. GoroutinesOK' /\ todo' \in [Goroutine -> Seq(Step)] /\ me' \in [Goroutine -> Locals] /\ cleared' \in SUBSET Id
  BY <1>1, GoroutinesGoOn DEF BaseInv
<1> QED
  BY <1>1, <1>2 DEF BaseInv, TypeOK

(* The objects of a step that changes none of them. *)
LEMMA ObjectsKept ==
    ASSUME BaseInv, UNCHANGED <<account, back, flow, running, pool, vault, states, index, raced, scene>>
    PROVE  ObjectsOK' /\ Grows /\ Len(account') = Len(account) /\ Len(back') = Len(back)
<1>1. Len(account) \in Nat /\ Len(back) \in Nat
  BY Elements DEF BaseInv, TypeOK
<1> QED
  BY <1>1, ObjectsAreOK DEF ObjectsOK, BackendsMade, Grows

(* CopilotBackend.Start up to its first unlock. *)
LEMMA BeginStartBase ==
    ASSUME BaseInv, NEW w \in Goroutine, NEW s \in {"start", "addStart", "restart", "sdk"}, At(w, s),
           NEW b \in 1..Len(back), NEW onError, BeginStart(w, b, onError),
           onError \in {"ignore", "abort", "fail"}, onError = "abort" => s = "addStart",
           s = "sdk" => onError = "ignore",
           UNCHANGED <<account, flow, running, pool, vault, states, index, raced, scene>>
    PROVE  BaseInv'
<1>1. TypeOK /\ GoroutinesOK /\ BackendsMade
  BY DEF BaseInv
<1>2. /\ todo[w] \in Seq(Step) /\ todo[w] # <<>> /\ todo[w][1] = s /\ me[w] \in Locals
      /\ LocalOK(todo[w], me[w], Len(account), Len(back))
      /\ Len(account) \in Nat /\ Len(back) \in Nat
  BY <1>1, AtStep
<1>3. b \in Nat /\ back \in Seq(BackendRecord)
  BY <1>1 DEF TypeOK
<1> DEFINE m == [me[w] EXCEPT !.backend = b]
<1>4. m \in Locals /\ m.op = me[w].op /\ m.account = me[w].account /\ m.queue = me[w].queue
      /\ m.onError = me[w].onError /\ m.backend = b
  BY <1>2, <1>3 DEF Locals
<1>5. CASE back[b].ready
  <2>1. Proceed(w, Rest(w), m) /\ UNCHANGED back
    BY <1>5 DEF BeginStart
  <2>2. LocalOK(Rest(w), m, Len(account), Len(back))
    BY <1>1, <1>4, ContinueOK
  <2> HIDE DEF m
  <2> QED
    BY <2>1, <2>2, ObjectsKept, Stepped
<1>6. CASE ~back[b].ready
  <2> DEFINE made == back[b].client = 0
             k == IF made THEN back[b].made + 1 ELSE back[b].client
             j == IF made THEN back[b].made + 1 ELSE back[b].made
             n == [m EXCEPT !.client = k, !.onError = onError]
  <2>1. back[b] \in BackendRecord
    BY <1>3, Elements
  <2>2. back[b].made \in Nat /\ back[b].client \in Nat
    BY <2>1 DEF BackendRecord
  <2>3. k \in Nat /\ k # 0 /\ j \in Nat
    BY <2>2
  <2>4. /\ back' = [back EXCEPT ![b].client = k, ![b].made = j]
        /\ Proceed(w, <<"launch">> \o Rest(w), n)
    BY <1>6 DEF BeginStart
  <2> HIDE DEF made, k, m, j
  <2>5. n \in Locals /\ n.op = me[w].op /\ n.account = me[w].account /\ n.queue = me[w].queue
        /\ n.onError = onError /\ n.backend = b /\ n.client = k
    BY <1>4, <2>3 DEF Locals
  <2> HIDE DEF n
  <2>7. back' \in Seq(BackendRecord) /\ Len(back') = Len(back)
    <3>1. ClientMade(back', back, b, k, j)
      BY <2>4 DEF ClientMade
    <3> QED
      BY <1>3, <2>3, <3>1, BackendMade
  <2>8. ObjectsOK' /\ Grows
    <3>1. UNCHANGED account /\ Len(account') = Len(account)
      OBVIOUS
    <3> QED
      BY <1>2, <2>7, <3>1, ObjectsAreOK DEF ObjectsOK, BackendsMade, Grows
  <2>9. n.op = "none" => n.onError = "ignore"
    <3> SUFFICES ASSUME me[w].op = "none"
                 PROVE  onError = "ignore"
      BY <2>5
    <3>1. todo[w][1] \in StepsOf("none")
      BY <1>2, StepsStay DEF LocalOK
    <3>2. s = "sdk"
      BY <1>2, <3>1 DEF StepsOf, LaunchSteps
    <3> QED
      BY <3>2
  <2>10. "launch" \in LaunchSteps
    BY DEF LaunchSteps
  <2>11. LocalOK(<<"launch">> \o Tail(todo[w]), n, Len(account), Len(back))
    BY <1>2, <2>3, <2>5, <2>9, <2>10, LocalLaunch
  <2>12. LocalOK(<<"launch">> \o Rest(w), n, Len(account'), Len(back'))
    BY <2>7, <2>11 DEF Rest
  <2> QED
    BY <2>4, <2>8, <2>12, Stepped
<1> QED
  BY <1>5, <1>6

(* One element more. *)
LEMMA Appended ==
    ASSUME NEW S, NEW q \in Seq(S), NEW x \in S
    PROVE  /\ Append(q, x) \in Seq(S) /\ Len(Append(q, x)) = Len(q) + 1
           /\ \A i \in 1..Len(q) : Append(q, x)[i] = q[i]
           /\ Append(q, x)[Len(q) + 1] = x
OBVIOUS

(* CopilotBackend.Close, whatever backend it is of. *)
LEMMA Closed ==
    ASSUME back \in Seq(BackendRecord), running \in SUBSET (Nat \X Nat), raced \in BOOLEAN,
           NEW w, NEW b \in Nat, Close(w, b)
    PROVE  /\ back' \in Seq(BackendRecord) /\ Len(back') = Len(back)
           /\ \A i \in 1..Len(back) : /\ back'[i].token = back[i].token
                                      /\ back'[i].client = IF i = b THEN 0 ELSE back[i].client
                                      /\ (i = b => ~back'[i].ready) /\ (i # b => back'[i].ready = back[i].ready)
           /\ running' = running \ {<<b, back[b].client>>} /\ raced' = (raced \/ Others(w))
           /\ running' \in SUBSET (Nat \X Nat) /\ raced' \in BOOLEAN
<1>1. ClosedAt(back', back, b) /\ running' = running \ {<<b, back[b].client>>} /\ raced' = (raced \/ Others(w))
  BY DEF Close, ClosedAt
<1>2. /\ back' \in Seq(BackendRecord) /\ Len(back') = Len(back)
      /\ \A i \in 1..Len(back) : /\ back'[i].token = back[i].token
                                 /\ back'[i].client = IF i = b THEN 0 ELSE back[i].client
                                 /\ (i = b => ~back'[i].ready) /\ (i # b => back'[i].ready = back[i].ready)
  <2>1. ClosedAt(back', back, b) /\ back \in Seq(BackendRecord) /\ b \in Nat
    BY <1>1
  <2>2. back' \in Seq(BackendRecord) /\ Len(back') = Len(back)
    BY ONLY <2>1, BackendClosed
  <2>3. ASSUME NEW i \in 1..Len(back)
        PROVE  /\ back'[i].token = back[i].token
               /\ back'[i].client = IF i = b THEN 0 ELSE back[i].client
               /\ (i = b => ~back'[i].ready) /\ (i # b => back'[i].ready = back[i].ready)
    <3>1. i \in 1..Len(back)
      OBVIOUS
    <3> QED
      BY ONLY <2>1, <3>1, BackendClosed
  <2> QED
    BY <2>2, <2>3
<1>3. running' \in SUBSET (Nat \X Nat) /\ raced' \in BOOLEAN
  BY <1>1 DEF Others
<1> QED
  BY <1>1, <1>2, <1>3

(* A backend is built with a token or with none. *)
LEMMA Resolved ==
    ASSUME scene \in Scenes, vault \in [Id -> Tokens], NEW id \in Id, NEW r \in Tokens
    PROVE  ResolveToken(id, r) \in Tokens
<1>1. {scene.given, scene.ambient} \subseteq [Id -> Tokens]
  BY AdministrationAssumption DEF Tokens
<1> DEFINE g == scene.given
           a == scene.ambient
<1>2. g \in [Id -> Tokens] /\ a \in [Id -> Tokens]
  BY ONLY <1>1
<1>3. g[id] \in Tokens /\ a[id] \in Tokens /\ vault[id] \in Tokens
  BY <1>2
<1> QED
  BY <1>3 DEF ResolveToken

(* What install does, and the token it puts into the account's memory. *)
NewToken(w) == IF me[w].id \in Vaulted THEN "" ELSE me[w].token
Installs(w, on) ==
    /\ At(w, "install")
    /\ AsksVault(me[w].id, NewToken(w)) => vault[me[w].id] # ""
    /\ back' = Append(back, Backend(ResolveToken(me[w].id, NewToken(w))))
    /\ account' = Append(account, [id |-> me[w].id, enabled |-> on, backend |-> Len(back) + 1, token |-> NewToken(w)])
    /\ pool' = [pool EXCEPT ![me[w].id] = Len(account) + 1]
    /\ raced' = (raced \/ pool[me[w].id] # 0)
    /\ Proceed(w, Rest(w), [me[w] EXCEPT !.account = Len(account) + 1])
    /\ UNCHANGED <<running, logins, index, ops, faults>>

(* A user is installed enabled or disabled. *)
LEMMA InstallIs ==
    ASSUME NEW w, Install(w)
    PROVE  \E on \in BOOLEAN : Installs(w, on)
BY DEF Install, Installs, NewToken

(* Every step of a handler or of the refresh loop keeps BaseInv. *)
LEMMA WorkBase ==
    ASSUME BaseInv, NEW w \in Goroutine, Work(w), UNCHANGED scene
    PROVE  BaseInv'
<1>1. TypeOK /\ GoroutinesOK /\ BackendsMade /\ ObjectsOK
  BY ObjectsAreOK DEF BaseInv
<1>2. /\ account \in Seq(AccountRecord) /\ back \in Seq(BackendRecord) /\ flow \in Seq(FlowRecord)
      /\ Len(account) \in Nat /\ Len(back) \in Nat /\ pool \in [Id -> 0..Len(account)]
      /\ \A n \in 1..Len(account) : account[n] \in AccountRecord /\ account[n].backend \in 1..Len(back)
      /\ \A n \in 1..Len(back) : back[n] \in BackendRecord
      /\ me[w] \in Locals /\ LocalOK(todo[w], me[w], Len(account), Len(back))
  BY <1>1, Elements DEF TypeOK, GoroutinesOK, BackendsMade
<1>3. me[w].id \in Id /\ me[w].token \in Tokens /\ me[w].backend \in Nat /\ me[w].account \in Nat /\ me[w].flow \in Nat
      /\ pool[me[w].id] \in 0..Len(account)
  BY <1>2 DEF Locals
<1>4. ASSUME NEW s, NEW onError, <<s, onError>> \in {<<"start", "ignore">>, <<"addStart", "abort">>, <<"restart", "fail">>},
             StartAccount(w, s, onError)
      PROVE  BaseInv'
  <2>1. At(w, s) /\ UNCHANGED <<account, pool, running, vault, flow, states, index, raced, scene>>
        /\ s \in {"start", "addStart", "restart"} /\ onError \in {"ignore", "abort", "fail"} /\ (onError = "abort" => s = "addStart")
    BY <1>4 DEF StartAccount, accounts, logins
  <2> DEFINE skips == pool[me[w].id] = 0 \/ (s = "addStart" /\ ~account[me[w].account].enabled)
  <2>2. CASE skips
    <3>1. Proceed(w, Rest(w), me[w]) /\ UNCHANGED back
      BY <1>4, <2>2 DEF StartAccount, Continue
    <3>2. LocalOK(Rest(w), me[w], Len(account), Len(back))
      BY <1>1, <1>2, <2>1, ContinueOK
    <3> QED
      BY <2>1, <3>1, <3>2, ObjectsKept, Stepped
  <2>3. CASE ~skips
    <3>1. account[pool[me[w].id]].backend \in 1..Len(back)
      BY <1>2, <1>3, <2>3
    <3>2. BeginStart(w, account[pool[me[w].id]].backend, onError)
      BY <1>4, <2>3 DEF StartAccount
    <3> QED
      BY <2>1, <3>1, <3>2, BeginStartBase
  <2> QED
    BY <2>2, <2>3
<1>5. ASSUME Sdk(w)
      PROVE  BaseInv'
  <2>1. At(w, "sdk") /\ UNCHANGED <<account, pool, running, vault, flow, states, index, raced, scene>>
        /\ BeginStart(w, account[me[w].account].backend, "ignore")
    BY <1>5 DEF Sdk, accounts, logins
  <2>2. me[w].account \in 1..Len(account)
    <3>1. todo[w][1] = "sdk" /\ todo[w] # <<>> /\ me[w].account \in 0..Len(account)
      BY <1>1, <2>1, AtStep
    <3>2. me[w].account # 0
      BY <1>2, <3>1 DEF LocalOK, NeedsAccount
    <3> QED
      BY <1>2, <3>1, <3>2
  <2>3. account[me[w].account].backend \in 1..Len(back)
    BY <1>2, <2>2
  <2> QED
    BY <2>1, <2>3, BeginStartBase
<1>6. ASSUME Launch(w)
      PROVE  BaseInv'
  <2>1. At(w, "launch") /\ UNCHANGED <<account, pool, back, vault, flow, states, index, raced, scene>>
    BY <1>6 DEF Launch, accounts, logins
  <2>2. /\ todo[w] \in Seq(Step) /\ todo[w] # <<>> /\ todo[w][1] = "launch"
    BY <1>1, <2>1, AtStep
  <2>3. me[w].backend \in 1..Len(back) /\ me[w].client # 0 /\ me[w].client \in Nat
    BY <1>2, <2>2 DEF LocalOK, Launches, LaunchSteps, Locals
  <2>4. "markReady" \in LaunchSteps /\ "markFailed" \in LaunchSteps /\ "launch" \in LaunchSteps
    BY DEF LaunchSteps
  <2>5. me[w].op = "none" => me[w].onError = "ignore"
    BY <1>2 DEF LocalOK
  <2>6. /\ LocalOK(<<"markReady">> \o Rest(w), me[w], Len(account), Len(back))
        /\ LocalOK(<<"markFailed">> \o Rest(w), me[w], Len(account), Len(back))
    BY <1>2, <2>2, <2>3, <2>4, <2>5, LocalLaunch DEF Rest
  <2>7. running' \in SUBSET (Nat \X Nat)
    <3>1. running \in SUBSET (Nat \X Nat)
      BY <1>1 DEF TypeOK
    <3>2. <<me[w].backend, me[w].client>> \in Nat \X Nat
      BY <1>3, <2>3
    <3> QED
      BY <1>6, <3>1, <3>2 DEF Launch
  <2>8. ObjectsOK' /\ Grows /\ Len(account') = Len(account) /\ Len(back') = Len(back)
    BY <1>1, <1>2, <2>1, <2>7 DEF ObjectsOK, BackendsMade, Grows
  <2>9. CASE Proceed(w, <<"markReady">> \o Rest(w), me[w])
    BY <2>6, <2>8, <2>9, Stepped
  <2>10. CASE Proceed(w, <<"markFailed">> \o Rest(w), me[w])
    BY <2>6, <2>8, <2>10, Stepped
  <2> QED
    BY <1>6, <2>9, <2>10 DEF Launch
<1> DEFINE f == Forgotten(me[w])
<1>7. f \in Locals /\ f.op = me[w].op /\ f.account = me[w].account /\ f.queue = me[w].queue /\ f.onError = "ignore"
      /\ f.backend = me[w].backend /\ f.id = me[w].id /\ f.token = me[w].token
  BY <1>2 DEF Forgotten, Locals
<1> HIDE DEF f
<1>8. ASSUME MarkReady(w)
      PROVE  BaseInv'
  <2>1. At(w, "markReady") /\ UNCHANGED <<account, pool, running, vault, flow, states, index, raced, scene>>
        /\ ReadyAt(back', back, me[w].backend) /\ Proceed(w, Rest(w), f)
    BY <1>8 DEF MarkReady, accounts, logins, f, ReadyAt
  <2>2. back' \in Seq(BackendRecord) /\ Len(back') = Len(back)
    <3>1. ReadyAt(back', back, me[w].backend)
      BY <2>1
    <3>2. back \in Seq(BackendRecord) /\ me[w].backend \in Nat
      BY <1>2, <1>3
    <3> QED
      BY ONLY <3>1, <3>2, BackendReady
  <2>3. LocalOK(Rest(w), f, Len(account), Len(back))
    BY <1>1, <1>7, <2>1, ContinueOK
  <2>4. ObjectsOK' /\ Grows /\ Len(account') = Len(account)
    BY <1>1, <1>2, <2>1, <2>2 DEF ObjectsOK, BackendsMade, Grows
  <2> QED
    BY <2>1, <2>2, <2>3, <2>4, Stepped
<1>9. ASSUME MarkFailed(w)
      PROVE  BaseInv'
  <2>1. /\ At(w, "markFailed") /\ UNCHANGED <<account, pool, running, vault, flow, states, index, raced, scene>>
        /\ UnreadyAt(back', back, me[w].backend)
        /\ \/ Proceed(w, <<>>, f)
           \/ Proceed(w, <<"abort">>, f) /\ me[w].onError = "abort"
           \/ Proceed(w, Rest(w), f)
    <3>1. /\ At(w, "markFailed") /\ UNCHANGED <<account, pool, running, vault, flow, states, index, raced, scene>>
          /\ UnreadyAt(back', back, me[w].backend)
      BY <1>9 DEF MarkFailed, accounts, logins, UnreadyAt
    <3> DEFINE err == back[me[w].backend].token = "" /\ me[w].onError # "ignore"
               ends == err /\ me[w].onError = "fail" /\ me[w].op \notin {"logout", "delete"}
               q == IF ends THEN <<>> ELSE IF err /\ me[w].onError = "abort" THEN <<"abort">> ELSE Rest(w)
    <3>2. Proceed(w, q, f)
      BY <1>9 DEF MarkFailed, f
    <3>3. q = <<>> \/ (q = <<"abort">> /\ me[w].onError = "abort") \/ q = Rest(w)
      OBVIOUS
    <3> HIDE DEF q
    <3> QED
      BY <3>1, <3>2, <3>3
  <2>2. back' \in Seq(BackendRecord) /\ Len(back') = Len(back)
    <3>1. UnreadyAt(back', back, me[w].backend)
      BY <2>1
    <3>2. back \in Seq(BackendRecord) /\ me[w].backend \in Nat
      BY <1>2, <1>3
    <3> QED
      BY ONLY <3>1, <3>2, BackendUnready
  <2>3. ObjectsOK' /\ Grows /\ Len(account') = Len(account)
    BY <1>1, <1>2, <2>1, <2>2 DEF ObjectsOK, BackendsMade, Grows
  <2>4. LocalOK(Rest(w), f, Len(account), Len(back))
    BY <1>1, <1>7, <2>1, ContinueOK
  <2>5. LocalOK(<<>>, f, Len(account), Len(back))
    <3>1. LocalOK(<<>>, me[w], Len(account), Len(back))
      BY <1>1, ReturnOK
    <3> QED
      BY <1>7, <3>1 DEF LocalOK, Launches, Rebuilds
  <2>6. me[w].onError = "abort" => LocalOK(<<"abort">>, f, Len(account), Len(back))
    <3> SUFFICES ASSUME me[w].onError = "abort"
                 PROVE  LocalOK(<<"abort">>, f, Len(account), Len(back))
      OBVIOUS
    <3>1. todo[w] # <<>> /\ todo[w][1] = "markFailed"
      BY <1>1, <2>1, AtStep
    <3>2. me[w].account # 0 /\ me[w].op = "create" /\ me[w].queue = {} /\ me[w].account \in 0..Len(account)
      BY <1>2, <3>1 DEF LocalOK, Launches, LaunchSteps
    <3> QED
      BY <1>2, <1>7, <3>2, LocalList
  <2> QED
    BY <2>1, <2>2, <2>3, <2>4, <2>5, <2>6, Stepped
<1> DEFINE OK(q) == LocalOK(q, me[w], Len(account), Len(back))
<1>10. OK(<<>>) /\ \A s : At(w, s) /\ s \notin {"install", "build", "unlist"} => OK(Rest(w))
  BY <1>1, <1>2, ReturnOK, ContinueOK
<1>11. ASSUME NEW s \in {"enable", "disable"}, NEW e \in BOOLEAN, SetEnabled(w, s, e)
       PROVE  BaseInv'
  <2>1. At(w, s) /\ UNCHANGED <<pool, back, running, vault, flow, states, index, raced, scene>>
    BY <1>11 DEF SetEnabled, clients, logins
  <2>2. CASE pool[me[w].id] = 0
    <3>1. Proceed(w, <<>>, me[w]) /\ UNCHANGED account
      BY <1>11, <2>2 DEF SetEnabled, Return
    <3> QED
      BY <1>10, <2>1, <3>1, ObjectsKept, Stepped
  <2>3. CASE pool[me[w].id] # 0
    <3>1. Proceed(w, Rest(w), me[w]) /\ EnabledSet(account', account, pool[me[w].id])
      BY <1>11, <2>3 DEF SetEnabled, Continue, EnabledSet
    <3>2. pool[me[w].id] \in Nat
      BY <1>2, <1>3
    <3>3. /\ account' \in Seq(AccountRecord) /\ Len(account') = Len(account)
          /\ \A i \in 1..Len(account) : account'[i].backend = account[i].backend
      BY <1>2, <3>1, <3>2, AccountEnabled
    <3>4. BackendsMade'
      BY <1>2, <2>1, <3>3 DEF BackendsMade
    <3>5. Len(account') = Len(account) /\ Len(back') = Len(back)
      BY <2>1, <3>3
    <3>6. pool' \in [Id -> 0..Len(account')]
      BY <1>2, <2>1, <3>5
    <3>7. ObjectsOK' /\ Grows
      BY <1>1, <1>2, <2>1, <3>3, <3>4, <3>5, <3>6 DEF ObjectsOK, Grows
    <3> QED
      BY <1>10, <2>1, <3>1, <3>5, <3>7, Stepped
  <2> QED
    BY <2>2, <2>3
<1>12. ASSUME StoreToken(w)
       PROVE  BaseInv'
  <2>1. At(w, "store") /\ UNCHANGED <<account, pool, back, running, flow, states, index, raced, scene>>
        /\ (Proceed(w, Rest(w), me[w]) \/ Proceed(w, <<>>, me[w]))
    BY <1>12 DEF StoreToken, accounts, clients, Continue, Return
  <2>2. vault' = vault \/ vault' = [vault EXCEPT ![me[w].id] = me[w].token]
    BY <1>12 DEF StoreToken
  <2>3. vault' \in [Id -> Tokens]
    BY <1>1, <1>3, <2>2 DEF TypeOK
  <2>4. ObjectsOK' /\ Grows /\ Len(account') = Len(account) /\ Len(back') = Len(back)
    BY <1>1, <1>2, <2>1, <2>3 DEF ObjectsOK, BackendsMade, Grows
  <2> QED
    BY <1>10, <2>1, <2>4, Stepped
<1>13. ASSUME CheckFree(w)
       PROVE  BaseInv'
  <2>1. At(w, "check") /\ UNCHANGED <<account, pool, back, running, vault, flow, states, index, raced, scene>>
        /\ (Proceed(w, Rest(w), me[w]) \/ Proceed(w, <<>>, me[w]))
    BY <1>13 DEF CheckFree, accounts, clients, logins, Continue, Return
  <2> QED
    BY <1>10, <2>1, ObjectsKept, Stepped
<1>14. ASSUME Install(w)
       PROVE  BaseInv'
  <2> PICK on \in BOOLEAN : Installs(w, on)
    BY <1>14, InstallIs
  <2> DEFINE id == me[w].id
             tok == ResolveToken(id, NewToken(w))
             a == [id |-> id, enabled |-> on, backend |-> Len(back) + 1, token |-> NewToken(w)]
             m == [me[w] EXCEPT !.account = Len(account) + 1]
  <2>1. /\ At(w, "install") /\ UNCHANGED <<running, vault, flow, states, index, scene>>
        /\ back' = Append(back, Backend(tok)) /\ account' = Append(account, a)
        /\ pool' = [pool EXCEPT ![id] = Len(account) + 1]
        /\ raced' = (raced \/ pool[id] # 0)
        /\ Proceed(w, Rest(w), m)
    BY DEF Installs, logins
  <2>0. "" \in Tokens /\ NewToken(w) \in Tokens
    BY <1>3 DEF NewToken, Tokens
  <2>2. tok \in Tokens
    BY <1>1, <1>3, <2>0, Resolved DEF TypeOK
  <2>3. Backend(tok) \in BackendRecord /\ a \in AccountRecord /\ a.backend = Len(back) + 1
    <3>1. "" \in Tokens /\ Len(back) + 1 \in Nat
      BY <1>2 DEF Tokens
    <3>2. Backend(tok) \in BackendRecord
      BY <2>2 DEF Backend, BackendRecord
    <3>3. a \in AccountRecord /\ a.backend = Len(back) + 1
      BY <1>3, <2>0, <3>1 DEF AccountRecord
    <3> QED
      BY <3>2, <3>3
  <2>4. m \in Locals /\ m.op = me[w].op /\ m.account = Len(account) + 1 /\ m.queue = me[w].queue
        /\ m.onError = me[w].onError /\ m.backend = me[w].backend
    <3>1. Len(account) + 1 \in Nat /\ me[w] \in Locals
      BY <1>2
    <3> QED
      BY <3>1 DEF Locals
  <2> HIDE DEF a, m, tok
  <2>5. back' \in Seq(BackendRecord) /\ Len(back') = Len(back) + 1
    BY <1>2, <2>1, <2>3, Appended
  <2>6. account' \in Seq(AccountRecord) /\ Len(account') = Len(account) + 1
        /\ (\A i \in 1..Len(account) : account'[i] = account[i]) /\ account'[Len(account) + 1] = a
    BY <1>2, <2>1, <2>3, Appended
  <2>7. pool' \in [Id -> 0..Len(account')]
    <3>1. 0..Len(account) \subseteq 0..Len(account') /\ Len(account) + 1 \in 0..Len(account')
      BY <1>2, <2>6
    <3>2. pool' \in [Id -> 0..Len(account')]
      BY <1>2, <2>1, <3>1
    <3> QED
      BY <3>2
  <2>8. BackendsMade'
    <3> SUFFICES ASSUME NEW n \in 1..Len(account')
                 PROVE  account'[n].backend \in 1..Len(back')
      BY DEF BackendsMade
    <3>0. 1..Len(back) \subseteq 1..Len(back') /\ Len(back) + 1 \in 1..Len(back')
      BY <1>2, <2>5
    <3>1. CASE n \in 1..Len(account)
      <4>1. account'[n] = account[n] /\ account[n].backend \in 1..Len(back)
        BY <1>2, <2>6, <3>1
      <4> QED
        BY <3>0, <4>1
    <3>2. CASE n = Len(account) + 1
      BY <2>3, <2>6, <3>0, <3>2
    <3> QED
      BY <1>2, <2>6, <3>1, <3>2
  <2>9. raced' \in BOOLEAN
    BY <1>1, <2>1 DEF TypeOK
  <2>10. ObjectsOK' /\ Grows
    BY <1>1, <1>2, <2>1, <2>5, <2>6, <2>7, <2>8, <2>9 DEF ObjectsOK, Grows
  <2>11. todo[w] # <<>> /\ todo[w][1] = "install" /\ me[w].queue \subseteq 1..Len(account)
    BY <1>1, <2>1, AtStep
  <2>12. LocalOK(todo[w], me[w], Len(account'), Len(back'))
    <3>1. Len(account) <= Len(account') /\ Len(back) <= Len(back') /\ Len(account') \in Nat /\ Len(back') \in Nat
      BY <1>2, <2>5, <2>6
    <3>2. LocalOK(todo[w], me[w], Len(account), Len(back)) /\ Len(account) \in Nat /\ Len(back) \in Nat
      BY <1>1, <1>2, <2>1, AtStep
    <3> QED
      BY ONLY <3>1, <3>2, LocalGrows
  <2>13. Len(account') \in Nat /\ Len(back') \in Nat /\ m.account \in 0..Len(account') /\ m.account # 0
    BY <1>2, <2>4, <2>5, <2>6
  <2>14. LocalOK(Tail(todo[w]), m, Len(account'), Len(back'))
    BY <2>4, <2>11, <2>12, <2>13, LocalRest
  <2> QED
    BY <2>1, <2>10, <2>14, Stepped DEF Rest
<1>15. ASSUME Abort(w)
       PROVE  BaseInv'
  <2>1. /\ At(w, "abort") /\ UNCHANGED <<account, vault, flow, states, index, scene>>
        /\ pool' = [pool EXCEPT ![me[w].id] = 0] /\ Close(w, account[me[w].account].backend)
        /\ Proceed(w, <<>>, me[w])
    BY <1>15 DEF Abort, logins, Return
  <2>2. me[w].account \in 1..Len(account)
    <3>1. todo[w][1] = "abort" /\ todo[w] # <<>> /\ me[w].account \in 0..Len(account)
      BY <1>1, <2>1, AtStep
    <3>2. me[w].account # 0
      BY <1>2, <3>1 DEF LocalOK, NeedsAccount
    <3> QED
      BY <1>2, <3>1, <3>2
  <2>3. account[me[w].account].backend \in Nat
    BY <1>2, <2>2
  <2>4. back' \in Seq(BackendRecord) /\ Len(back') = Len(back) /\ running' \in SUBSET (Nat \X Nat) /\ raced' \in BOOLEAN
    BY <1>1, <2>1, <2>3, Closed DEF TypeOK
  <2>5. pool' \in [Id -> 0..Len(account')]
    <3>1. 0 \in 0..Len(account) /\ Len(account') = Len(account)
      BY <1>2, <2>1
    <3> QED
      BY <1>2, <2>1, <3>1
  <2>6. ObjectsOK' /\ Grows /\ Len(account') = Len(account)
    BY <1>1, <1>2, <2>1, <2>4, <2>5 DEF ObjectsOK, BackendsMade, Grows
  <2> QED
    BY <1>10, <2>1, <2>4, <2>6, Stepped
<1>16. ASSUME RemoveAccount(w)
       PROVE  BaseInv'
  <2>1. At(w, "remove") /\ UNCHANGED <<account, vault, flow, states, index, scene>>
    BY <1>16 DEF RemoveAccount, logins
  <2>2. CASE pool[me[w].id] = 0
    <3>1. Proceed(w, <<>>, me[w]) /\ UNCHANGED <<pool, back, running, raced>>
      BY <1>16, <2>2 DEF RemoveAccount, Return, clients
    <3> QED
      BY <1>10, <2>1, <3>1, ObjectsKept, Stepped
  <2>3. CASE pool[me[w].id] # 0
    <3>1. /\ pool' = [pool EXCEPT ![me[w].id] = 0] /\ Close(w, account[pool[me[w].id]].backend)
          /\ Proceed(w, Rest(w), me[w])
      BY <1>16, <2>3 DEF RemoveAccount, Continue
    <3>2. account[pool[me[w].id]].backend \in Nat
      BY <1>2, <1>3, <2>3
    <3>3. back' \in Seq(BackendRecord) /\ Len(back') = Len(back) /\ running' \in SUBSET (Nat \X Nat) /\ raced' \in BOOLEAN
      BY <1>1, <3>1, <3>2, Closed DEF TypeOK
    <3>4. pool' \in [Id -> 0..Len(account')]
      <4>1. 0 \in 0..Len(account) /\ Len(account') = Len(account)
        BY <1>2, <2>1
      <4> QED
        BY <1>2, <3>1, <4>1
    <3>5. ObjectsOK' /\ Grows /\ Len(account') = Len(account)
      BY <1>1, <1>2, <2>1, <3>3, <3>4 DEF ObjectsOK, BackendsMade, Grows
    <3> QED
      BY <1>10, <2>1, <3>1, <3>3, <3>5, Stepped
  <2> QED
    BY <2>2, <2>3
<1>17. ASSUME BuildBackend(w)
       PROVE  BaseInv'
  <2> DEFINE a == pool[me[w].id]
             tok == ResolveToken(me[w].id, account[a].token)
             m == [me[w] EXCEPT !.account = a, !.backend = Len(back) + 1]
  <2>1. At(w, "build") /\ UNCHANGED <<account, pool, running, vault, flow, states, index, raced, scene>>
    BY <1>17 DEF BuildBackend, accounts, logins
  <2>2. \/ Proceed(w, AfterRebuild(Rest(w)), me[w]) /\ UNCHANGED back
        \/ Proceed(w, <<>>, me[w]) /\ UNCHANGED back
        \/ a # 0 /\ back' = Append(back, Backend(tok)) /\ Proceed(w, Rest(w), m)
    BY <1>17 DEF BuildBackend, Return
  <2>3. todo[w] # <<>> /\ todo[w][1] = "build" /\ me[w].queue \subseteq 1..Len(account)
    BY <1>1, <2>1, AtStep
  <2>4. OK(AfterRebuild(Rest(w)))
    <3>1. todo[w][1] \in RebuildSteps
      BY <2>3 DEF RebuildSteps
    <3> QED
      BY <1>2, <2>3, <3>1, LocalAfterRebuild DEF Rest
  <2>5. CASE Proceed(w, AfterRebuild(Rest(w)), me[w]) /\ UNCHANGED back
    BY <2>1, <2>4, <2>5, ObjectsKept, Stepped
  <2>6. CASE Proceed(w, <<>>, me[w]) /\ UNCHANGED back
    BY <1>10, <2>1, <2>6, ObjectsKept, Stepped
  <2>7. CASE a # 0 /\ back' = Append(back, Backend(tok)) /\ Proceed(w, Rest(w), m)
    <3>1. a \in 1..Len(account) /\ account[a] \in AccountRecord
      BY <1>2, <1>3, <2>7
    <3>2. tok \in Tokens
      <4>1. account[a].token \in Tokens
        BY <3>1 DEF AccountRecord
      <4> QED
        BY <1>1, <1>3, <4>1, Resolved DEF TypeOK
    <3> HIDE DEF tok
    <3>3. Backend(tok) \in BackendRecord
      BY <3>2 DEF Backend, BackendRecord
    <3>4. back' \in Seq(BackendRecord) /\ Len(back') = Len(back) + 1
      BY <1>2, <2>7, <3>3, Appended
    <3>5. m \in Locals /\ m.op = me[w].op /\ m.account = a /\ m.queue = me[w].queue
          /\ m.onError = me[w].onError /\ m.backend = Len(back) + 1
      <4>1. Len(back) + 1 \in Nat /\ a \in Nat /\ me[w] \in Locals
        BY <1>2, <3>1
      <4> QED
        BY <4>1 DEF Locals
    <3> HIDE DEF a, m
    <3>6. UNCHANGED account /\ Len(account') = Len(account) /\ 1..Len(back) \subseteq 1..Len(back')
          /\ Len(back) + 1 \in 1..Len(back') /\ Len(back') \in Nat
      BY <1>2, <2>1, <3>4
    <3>7. BackendsMade'
      BY <1>2, <3>6 DEF BackendsMade
    <3>8. ObjectsOK' /\ Grows
      BY <1>1, <1>2, <2>1, <3>4, <3>6, <3>7 DEF ObjectsOK, Grows
    <3>9. LocalOK(todo[w], me[w], Len(account'), Len(back'))
      <4>1. Len(account) <= Len(account') /\ Len(back) <= Len(back') /\ Len(account') \in Nat
        BY <1>2, <3>4, <3>6
      <4> QED
        BY <1>2, <3>6, <4>1, LocalGrows
    <3>10. LocalOK(Tail(todo[w]), m, Len(account'), Len(back'))
      <4>1. m.account \in 0..Len(account') /\ m.account # 0 /\ m.backend \in 1..Len(back') /\ Len(account') \in Nat
        BY <1>2, <2>7, <3>1, <3>5, <3>6
      <4> QED
        BY <2>3, <3>5, <3>6, <3>9, <4>1, LocalRest
    <3> QED
      BY <2>7, <3>8, <3>10, Stepped DEF Rest
  <2> QED
    BY <2>2, <2>5, <2>6, <2>7
<1>18. ASSUME CloseOld(w)
       PROVE  BaseInv'
  <2>1. /\ At(w, "close") /\ UNCHANGED <<account, pool, vault, flow, states, index, scene>>
        /\ Close(w, account[me[w].account].backend) /\ Proceed(w, Rest(w), me[w])
    BY <1>18 DEF CloseOld, accounts, logins, Continue
  <2>2. me[w].account \in 1..Len(account)
    <3>1. todo[w][1] = "close" /\ todo[w] # <<>> /\ me[w].account \in 0..Len(account)
      BY <1>1, <2>1, AtStep
    <3>2. me[w].account # 0
      BY <1>2, <3>1 DEF LocalOK, NeedsAccount
    <3> QED
      BY <1>2, <3>1, <3>2
  <2>3. account[me[w].account].backend \in Nat
    BY <1>2, <2>2
  <2>4. back' \in Seq(BackendRecord) /\ Len(back') = Len(back) /\ running' \in SUBSET (Nat \X Nat) /\ raced' \in BOOLEAN
    BY <1>1, <2>1, <2>3, Closed DEF TypeOK
  <2>5. ObjectsOK' /\ Grows /\ Len(account') = Len(account)
    BY <1>1, <1>2, <2>1, <2>4 DEF ObjectsOK, BackendsMade, Grows
  <2> QED
    BY <1>10, <2>1, <2>4, <2>5, Stepped
<1>19. ASSUME SwapBackend(w)
       PROVE  BaseInv'
  <2>1. /\ At(w, "swap") /\ UNCHANGED <<pool, back, running, vault, flow, states, index, scene>>
        /\ BackendSet(account', account, me[w].account, me[w].backend)
        /\ raced' = (raced \/ Others(w))
        /\ (Proceed(w, Rest(w), me[w]) \/ Proceed(w, AfterRebuild(Rest(w)), me[w]))
    BY <1>19 DEF SwapBackend, clients, logins, Continue, BackendSet
  <2>2. todo[w] # <<>> /\ todo[w][1] = "swap"
    BY <1>1, <2>1, AtStep
  <2>3. OK(AfterRebuild(Rest(w)))
    <3>1. todo[w][1] \in RebuildSteps
      BY <2>2 DEF RebuildSteps
    <3> QED
      BY <1>2, <2>2, <3>1, LocalAfterRebuild DEF Rest
  <2>4. me[w].backend \in 1..Len(back)
    BY <1>2, <2>2 DEF LocalOK, Rebuilds
  <2>5. /\ account' \in Seq(AccountRecord) /\ Len(account') = Len(account)
        /\ \A i \in 1..Len(account) : account'[i].backend = IF i = me[w].account THEN me[w].backend ELSE account[i].backend
    <3>1. BackendSet(account', account, me[w].account, me[w].backend) /\ account \in Seq(AccountRecord)
          /\ me[w].account \in Nat /\ me[w].backend \in Nat
      BY <1>2, <1>3, <2>1
    <3>2. account' \in Seq(AccountRecord) /\ Len(account') = Len(account)
      BY ONLY <3>1, AccountBackend
    <3>3. \A i \in 1..Len(account) : account'[i].backend = IF i = me[w].account THEN me[w].backend ELSE account[i].backend
      BY ONLY <3>1, AccountBackend
    <3> QED
      BY <3>2, <3>3
  <2>6. BackendsMade'
    BY <1>2, <2>1, <2>4, <2>5 DEF BackendsMade
  <2>7. Len(account') = Len(account) /\ Len(back') = Len(back) /\ raced' \in BOOLEAN
    BY <1>1, <2>1, <2>5 DEF TypeOK, Others
  <2>8. ObjectsOK' /\ Grows
    BY <1>1, <1>2, <2>1, <2>5, <2>6, <2>7 DEF ObjectsOK, Grows
  <2> QED
    BY <1>10, <2>1, <2>3, <2>7, <2>8, Stepped
<1>20. ASSUME Issue(w)
       PROVE  BaseInv'
  <2>1. /\ At(w, "issue") /\ UNCHANGED <<account, pool, back, running, vault, index, raced, scene>>
        /\ Proceed(w, <<>>, me[w])
        /\ \/ /\ flow' = Append(flow, [status |-> "pending", used |-> FALSE])
              /\ states' = [states EXCEPT ![me[w].id] = Len(flow) + 1]
           \/ UNCHANGED <<flow, states>>
    BY <1>20 DEF Issue, accounts, clients, Return
  <2>2. [status |-> "pending", used |-> FALSE] \in FlowRecord
    BY DEF FlowRecord
  <2>3. flow' \in Seq(FlowRecord)
    <3>1. Append(flow, [status |-> "pending", used |-> FALSE]) \in Seq(FlowRecord)
      BY <1>2, <2>2
    <3> QED
      BY <1>2, <2>1, <3>1
  <2>4. states' \in [Id -> Nat]
    <3>1. Len(flow) + 1 \in Nat /\ states \in [Id -> Nat]
      BY <1>1, <1>2, Elements DEF TypeOK
    <3> QED
      BY <2>1, <3>1
  <2>5. ObjectsOK' /\ Grows /\ Len(account') = Len(account) /\ Len(back') = Len(back)
    BY <1>1, <1>2, <2>1, <2>3, <2>4 DEF ObjectsOK, BackendsMade, Grows
  <2> QED
    BY <1>10, <2>1, <2>5, Stepped
<1>21. ASSUME flow' = flow \/ FlowSet(flow', flow, me[w].flow) \/ FlowSet(flow', flow, states[me[w].id]),
              UNCHANGED <<account, pool, back, running, vault, states, index, raced, scene>>
       PROVE  ObjectsOK' /\ Grows /\ Len(account') = Len(account) /\ Len(back') = Len(back)
  <2>1. states[me[w].id] \in Nat
    BY <1>1, <1>3 DEF TypeOK
  <2>2. flow' \in Seq(FlowRecord)
    BY <1>2, <1>3, <1>21, <2>1, FlowSettled
  <2> QED
    BY <1>1, <1>2, <1>21, <2>2 DEF ObjectsOK, BackendsMade, Grows
<1>22. ASSUME Look(w)
       PROVE  BaseInv'
  <2> DEFINE g == states[me[w].id]
             m == [me[w] EXCEPT !.flow = g]
  <2>1. At(w, "look") /\ UNCHANGED <<account, pool, back, running, vault, states, index, raced, scene>>
    BY <1>22 DEF Look, accounts, clients
  <2>2. /\ flow' = flow \/ FlowSet(flow', flow, g)
        /\ Proceed(w, <<>>, me[w]) \/ Proceed(w, RefreshAccount, me[w]) \/ Proceed(w, Rest(w), m)
    BY <1>22 DEF Look, Return, FlowSet
  <2>3. m \in Locals /\ m.op = me[w].op /\ m.account = me[w].account /\ m.queue = me[w].queue
        /\ m.onError = me[w].onError /\ m.backend = me[w].backend
    <3>1. g \in Nat /\ me[w] \in Locals
      BY <1>1, <1>2, <1>3 DEF TypeOK
    <3> HIDE DEF g
    <3> QED
      BY <3>1 DEF Locals
  <2>4. OK(RefreshAccount)
    <3>1. todo[w] # <<>> /\ todo[w][1] = "look" /\ me[w].account \in 0..Len(account) /\ 1 \in 1..Len(todo[w])
      BY <1>1, <2>1, AtStep, Elements
    <3>2. me[w].op # "none"
      <4>1. todo[w][1] \in StepsOf(me[w].op)
        BY <1>2, <3>1, StepsStay DEF LocalOK
      <4> QED
        BY <3>1, <4>1 DEF StepsOf, LaunchSteps
    <3>3. me[w].queue = {}
      BY <1>2, <3>2 DEF LocalOK
    <3> QED
      BY <1>2, <3>1, <3>2, <3>3, LocalList
  <2>5. ObjectsOK' /\ Grows /\ Len(account') = Len(account) /\ Len(back') = Len(back)
    BY <1>21, <2>1, <2>2
  <2> HIDE DEF m
  <2>6. LocalOK(Rest(w), m, Len(account), Len(back))
    BY <1>1, <2>1, <2>3, ContinueOK
  <2> QED
    BY <1>10, <2>2, <2>3, <2>4, <2>5, <2>6, Stepped
<1>23. ASSUME Exchange(w)
       PROVE  BaseInv'
  <2> DEFINE a == pool[me[w].id]
             m == [me[w] EXCEPT !.account = a]
  <2>1. At(w, "exchange") /\ UNCHANGED <<account, pool, back, running, vault, states, index, raced, scene>>
    BY <1>23 DEF Exchange, accounts, clients
  <2>2. /\ FlowSet(flow', flow, me[w].flow)
        /\ Proceed(w, <<>>, me[w]) \/ (Proceed(w, Rest(w), m) /\ a # 0)
    BY <1>23 DEF Exchange, Return, FlowSet
  <2>3. m \in Locals /\ m.op = me[w].op /\ m.account = a /\ m.queue = me[w].queue
        /\ m.onError = me[w].onError /\ m.backend = me[w].backend
    <3>1. a \in Nat /\ me[w] \in Locals
      BY <1>2, <1>3
    <3> HIDE DEF a
    <3> QED
      BY <3>1 DEF Locals
  <2>4. ObjectsOK' /\ Grows /\ Len(account') = Len(account) /\ Len(back') = Len(back)
    BY <1>21, <2>1, <2>2
  <2>5. a # 0 => LocalOK(Rest(w), m, Len(account), Len(back))
    <3>1. todo[w] # <<>> /\ todo[w][1] = "exchange" /\ me[w].queue \subseteq 1..Len(account)
      BY <1>1, <2>1, AtStep
    <3>2. a \in 0..Len(account)
      BY <1>3
    <3> HIDE DEF a, m
    <3> QED
      BY <1>2, <2>3, <3>1, <3>2, LocalRest DEF Rest
  <2> HIDE DEF a, m
  <2> QED
    BY <1>10, <2>2, <2>4, <2>5, Stepped
<1>24. ASSUME Authorize(w)
       PROVE  BaseInv'
  <2>1. At(w, "authorize") /\ UNCHANGED <<account, pool, back, running, vault, states, index, raced, scene>>
        /\ FlowSet(flow', flow, me[w].flow) /\ Proceed(w, Rest(w), me[w])
    BY <1>24 DEF Authorize, accounts, clients, Continue, FlowSet
  <2>2. ObjectsOK' /\ Grows /\ Len(account') = Len(account) /\ Len(back') = Len(back)
    BY <1>21, <2>1
  <2> QED
    BY <1>10, <2>1, <2>2, Stepped
<1>25. ASSUME NEW a \in Nat, NEW t \in Tokens, TokenSet(account', account, a, t),
              UNCHANGED <<pool, back, running, vault, flow, states, index, raced, scene>>
       PROVE  ObjectsOK' /\ Grows /\ Len(account') = Len(account) /\ Len(back') = Len(back)
  <2>1. account' \in Seq(AccountRecord) /\ Len(account') = Len(account)
    BY <1>2, <1>25, AccountToken
  <2>2. \A i \in 1..Len(account) : account'[i].backend = account[i].backend
    BY <1>2, <1>25, AccountToken
  <2>3. BackendsMade'
    BY <1>2, <1>25, <2>1, <2>2 DEF BackendsMade
  <2>4. Len(back') = Len(back) /\ pool' \in [Id -> 0..Len(account')]
    BY <1>2, <1>25, <2>1
  <2> QED
    BY <1>1, <1>2, <1>25, <2>1, <2>3, <2>4 DEF ObjectsOK, Grows
<1>26. ASSUME KeepToken(w)
       PROVE  BaseInv'
  <2>1. At(w, "memory") /\ UNCHANGED <<pool, back, running, vault, flow, states, index, raced, scene>>
        /\ TokenSet(account', account, me[w].account, me[w].token) /\ Proceed(w, Rest(w), me[w])
    BY <1>26 DEF KeepToken, clients, logins, Continue, TokenSet
  <2>2. ObjectsOK' /\ Grows /\ Len(account') = Len(account) /\ Len(back') = Len(back)
    BY <1>3, <1>25, <2>1
  <2> QED
    BY <1>10, <2>1, <2>2, Stepped
<1>27. ASSUME ClearToken(w)
       PROVE  BaseInv'
  <2>1. At(w, "clear") /\ UNCHANGED <<pool, back, running, vault, flow, states, index, raced, scene>>
    BY <1>27 DEF ClearToken, clients, logins
  <2>2. \/ UNCHANGED account
        \/ TokenSet(account', account, pool[me[w].id], "")
    BY <1>27 DEF ClearToken, TokenSet
  <2>3. \/ Proceed(w, AfterRebuild(Rest(w)), me[w])
        \/ Proceed(w, Rest(w), me[w])
        \/ Proceed(w, <<"dropState">> \o AfterRebuild(Rest(w)), me[w])
    BY <1>27 DEF ClearToken
  <2>4. OK(AfterRebuild(Rest(w))) /\ OK(<<"dropState">> \o AfterRebuild(Rest(w)))
    <3>1. todo[w] # <<>> /\ todo[w][1] = "clear"
      BY <1>1, <2>1, AtStep
    <3>2. todo[w][1] \in RebuildSteps
      BY <3>1 DEF RebuildSteps
    <3> QED
      BY <1>2, <3>1, <3>2, LocalAfterRebuild DEF Rest
  <2>5. ObjectsOK' /\ Grows /\ Len(account') = Len(account) /\ Len(back') = Len(back)
    <3>1. pool[me[w].id] \in Nat
      BY <1>2, <1>3
    <3>4. "" \in Tokens
      BY DEF Tokens
    <3>2. CASE UNCHANGED account
      BY <2>1, <3>2, ObjectsKept
    <3>3. CASE TokenSet(account', account, pool[me[w].id], "")
      BY <1>25, <2>1, <3>1, <3>3, <3>4
    <3> QED
      BY <2>2, <3>2, <3>3
  <2> QED
    BY <1>10, <2>1, <2>3, <2>4, <2>5, Stepped
<1>28. ASSUME DropState(w)
       PROVE  BaseInv'
  <2>1. At(w, "dropState") /\ UNCHANGED <<account, pool, back, running, vault, flow, index, raced, scene>>
        /\ states' = [states EXCEPT ![me[w].id] = 0] /\ Proceed(w, Rest(w), me[w])
    BY <1>28 DEF DropState, accounts, clients, Continue
  <2>2. states' \in [Id -> Nat]
    BY <1>1, <2>1 DEF TypeOK
  <2>3. ObjectsOK' /\ Grows /\ Len(account') = Len(account) /\ Len(back') = Len(back)
    BY <1>1, <1>2, <2>1, <2>2 DEF ObjectsOK, BackendsMade, Grows
  <2> QED
    BY <1>10, <2>1, <2>3, Stepped
<1>29. ASSUME Unlist(w)
       PROVE  BaseInv'
  <2> DEFINE a == pool[me[w].id]
             m == [me[w] EXCEPT !.account = a]
  <2>1. At(w, "unlist") /\ UNCHANGED <<account, pool, back, running, vault, flow, states, raced, scene>>
        /\ index' = index \ {me[w].id}
    BY <1>29 DEF Unlist, accounts, clients, logins
  <2>2. Proceed(w, <<>>, me[w]) \/ (Proceed(w, Rest(w), m) /\ a # 0)
    BY <1>29 DEF Unlist, Return, Enabled
  <2>3. m \in Locals /\ m.op = me[w].op /\ m.account = a /\ m.queue = me[w].queue
        /\ m.onError = me[w].onError /\ m.backend = me[w].backend
    <3>1. a \in Nat /\ me[w] \in Locals
      BY <1>2, <1>3
    <3> HIDE DEF a
    <3> QED
      BY <3>1 DEF Locals
  <2>4. ObjectsOK' /\ Grows /\ Len(account') = Len(account) /\ Len(back') = Len(back)
    BY <1>1, <1>2, <2>1 DEF ObjectsOK, BackendsMade, Grows
  <2>5. a # 0 => LocalOK(Rest(w), m, Len(account), Len(back))
    <3>1. todo[w] # <<>> /\ todo[w][1] = "unlist" /\ me[w].queue \subseteq 1..Len(account)
      BY <1>1, <2>1, AtStep
    <3>2. a \in 0..Len(account)
      BY <1>3
    <3> HIDE DEF a, m
    <3> QED
      BY <1>2, <2>3, <3>1, <3>2, LocalRest DEF Rest
  <2> HIDE DEF a, m
  <2> QED
    BY <1>10, <2>2, <2>4, <2>5, Stepped
<1>30. ASSUME ListAccount(w)
       PROVE  BaseInv'
  <2>1. At(w, "list") /\ UNCHANGED <<account, pool, back, running, vault, flow, states, raced, scene>>
        /\ Proceed(w, <<>>, me[w]) /\ index' \in {index, index \cup {me[w].id}}
    BY <1>30 DEF ListAccount, Return, accounts, clients, logins
  <2>2. ObjectsOK' /\ Grows /\ Len(account') = Len(account) /\ Len(back') = Len(back)
    BY <1>1, <1>2, <1>3, <2>1 DEF ObjectsOK, BackendsMade, Grows
  <2> QED
    BY <1>10, <2>1, <2>2, Stepped
<1>31. ASSUME Visit(w)
       PROVE  BaseInv'
  <2>1. At(w, "visit") /\ UNCHANGED <<account, pool, back, running, vault, flow, states, raced, scene>>
        /\ todo[w] # <<>> /\ todo[w][1] = "visit"
    BY <1>1, <1>31, AtStep DEF Visit, accounts, clients, logins
  <2>2. CASE me[w].queue = {}
    <3>1. index' = me[w].found /\ Proceed(w, <<>>, me[w])
      BY <1>31, <2>2 DEF Visit, Return
    <3>2. index' \in SUBSET Id
      BY <1>2, <3>1 DEF Locals
    <3>3. ObjectsOK' /\ Grows /\ Len(account') = Len(account) /\ Len(back') = Len(back)
      BY <1>1, <1>2, <2>1, <3>2 DEF ObjectsOK, BackendsMade, Grows
    <3> QED
      BY <1>10, <3>1, <3>3, Stepped
  <2>3. CASE me[w].queue # {}
    <3>1. index' = index /\ \E a \in me[w].queue :
              Proceed(w, IF account[a].enabled THEN <<"sdk", "gather", "visit">> ELSE <<"visit">>,
                      [me[w] EXCEPT !.queue = @ \ {a}, !.account = a])
      BY <1>31, <2>3 DEF Visit
    <3>2. PICK a \in me[w].queue :
              Proceed(w, IF account[a].enabled THEN <<"sdk", "gather", "visit">> ELSE <<"visit">>,
                      [me[w] EXCEPT !.queue = @ \ {a}, !.account = a])
      BY <3>1
    <3> DEFINE m == [me[w] EXCEPT !.queue = @ \ {a}, !.account = a]
    <3>3. a \in 1..Len(account) /\ a \in Nat /\ a # 0 /\ a \in 0..Len(account)
      BY <1>2 DEF LocalOK
    <3>4. m \in Locals /\ m.op = me[w].op /\ m.account = a /\ m.queue = me[w].queue \ {a} /\ m.onError = me[w].onError
      BY <1>2, <3>3 DEF Locals
    <3>5. me[w].op = "none" /\ me[w].onError = "ignore" /\ me[w].queue \subseteq 1..Len(account)
      BY <1>2, <2>3 DEF LocalOK
    <3> HIDE DEF m
    <3>6. LocalOK(<<"visit">>, m, Len(account), Len(back)) /\ LocalOK(<<"sdk", "gather", "visit">>, m, Len(account), Len(back))
      BY <1>2, <3>3, <3>4, <3>5, LocalLoop
    <3>7. ObjectsOK' /\ Grows /\ Len(account') = Len(account) /\ Len(back') = Len(back)
      BY <2>1, <3>1, ObjectsKept
    <3>8. Proceed(w, <<"visit">>, m) \/ Proceed(w, <<"sdk", "gather", "visit">>, m)
      BY <3>2 DEF m
    <3> QED
      BY <3>6, <3>7, <3>8, Stepped
  <2> QED
    BY <2>2, <2>3
<1>32. ASSUME Gather(w)
       PROVE  BaseInv'
  <2> DEFINE m == [me[w] EXCEPT !.found = @ \cup {account[me[w].account].id}]
  <2>1. At(w, "gather") /\ UNCHANGED <<account, pool, back, running, vault, flow, states, index, raced, scene>>
        /\ todo[w] # <<>> /\ todo[w][1] = "gather"
    BY <1>1, <1>32, AtStep DEF Gather, accounts, clients, logins
  <2>2. Proceed(w, Rest(w), me[w]) \/ Proceed(w, Rest(w), m)
    BY <1>32 DEF Gather, Continue
  <2>3. LocalOK(Rest(w), me[w], Len(account), Len(back))
    BY <1>1, <1>2, <2>1, ContinueOK
  <2>4. me[w].account \in 1..Len(account)
    <3>1. 1 \in 1..Len(todo[w])
      BY <1>2, <2>1, Elements DEF LocalOK
    <3> QED
      BY <1>2, <2>1, <3>1 DEF LocalOK
  <2>5. m \in Locals /\ m.op = me[w].op /\ m.account = me[w].account /\ m.queue = me[w].queue
        /\ m.onError = me[w].onError /\ m.backend = me[w].backend
    <3> DEFINE i == account[me[w].account].id
    <3>1. i \in Id
      BY <1>2, <2>4 DEF AccountRecord
    <3> HIDE DEF i
    <3>2. m = [me[w] EXCEPT !.found = @ \cup {i}] /\ me[w] \in Locals
      BY <1>2 DEF i
    <3> QED
      BY <3>1, <3>2 DEF Locals
  <2> HIDE DEF m
  <2>6. LocalOK(Rest(w), m, Len(account), Len(back))
    BY <1>1, <2>1, <2>5, ContinueOK
  <2>7. ObjectsOK' /\ Grows /\ Len(account') = Len(account) /\ Len(back') = Len(back)
    BY <2>1, ObjectsKept
  <2> QED
    BY <2>2, <2>3, <2>6, <2>7, Stepped
<1>33. ASSUME InstallFails(w)
       PROVE  BaseInv'
  <2>1. At(w, "install") /\ UNCHANGED <<account, pool, back, running, vault, flow, states, index, raced, scene>>
        /\ Proceed(w, <<>>, me[w])
    BY <1>33 DEF InstallFails, accounts, clients, logins, Return
  <2> QED
    BY <1>10, <2>1, ObjectsKept, Stepped
<1> QED
  <2>1. CASE StartAccount(w, "start", "ignore") \/ StartAccount(w, "addStart", "abort") \/ StartAccount(w, "restart", "fail")
    BY <1>4, <2>1
  <2>2. CASE Sdk(w) \/ Launch(w) \/ MarkReady(w) \/ MarkFailed(w) \/ SetEnabled(w, "enable", TRUE) \/ SetEnabled(w, "disable", FALSE)
    BY <1>5, <1>6, <1>8, <1>9, <1>11, <2>2
  <2> QED
    BY <2>1, <2>2, <1>12, <1>13, <1>14, <1>15, <1>16, <1>17, <1>18, <1>19, <1>20, <1>22, <1>23, <1>24,
       <1>26, <1>27, <1>28, <1>29, <1>30, <1>31, <1>32, <1>33 DEF Work

(* A goroutine that is no longer alone goes on as before. *)
LEMMA LocalAlone ==
    ASSUME NEW q, NEW l, NEW na \in Nat, NEW nb \in Nat, LocalOK(q, l, na, nb)
    PROVE  LocalOK(q, [l EXCEPT !.alone = FALSE], na, nb)
<1> DEFINE m == [l EXCEPT !.alone = FALSE]
<1>1. l \in Locals
  BY DEF LocalOK
<1>2. m \in Locals /\ m.op = l.op /\ m.account = l.account /\ m.queue = l.queue /\ m.onError = l.onError
      /\ m.backend = l.backend /\ m.client = l.client
  BY <1>1 DEF Locals
<1> HIDE DEF m
<1>3. LocalOK(q, m, na, nb)
  BY <1>2 DEF LocalOK
<1> QED
  BY <1>3 DEF m

(* A step that begins something in w, and changes no more of the others than   *)
(* that they are not alone.                                                    *)
LEMMA BegunBase ==
    ASSUME BaseInv, NEW w \in Goroutine, NEW q, NEW l, LocalOK(q, l, Len(account), Len(back)),
           todo' = [todo EXCEPT ![w] = q], me' \in [Goroutine -> Locals], me'[w] = l,
           \A v \in Goroutine \ {w} : me'[v] \in {me[v], [me[v] EXCEPT !.alone = FALSE]},
           cleared' \in SUBSET Id, raced' \in BOOLEAN,
           UNCHANGED <<account, back, flow, running, pool, vault, states, index, scene>>
    PROVE  BaseInv'
<1>1. TypeOK /\ GoroutinesOK /\ BackendsMade
  BY DEF BaseInv
<1>2. Len(account) \in Nat /\ Len(back) \in Nat /\ todo \in [Goroutine -> Seq(Step)]
  BY <1>1, Elements DEF TypeOK
<1>3. q \in Seq(Step)
  BY DEF LocalOK
<1>4. todo' \in [Goroutine -> Seq(Step)] /\ todo'[w] = q /\ \A v \in Goroutine \ {w} : todo'[v] = todo[v]
  BY <1>2, <1>3
<1>5. ASSUME NEW v \in Goroutine
      PROVE  LocalOK(todo'[v], me'[v], Len(account), Len(back))
  <2>1. CASE v = w
    BY <1>4, <2>1
  <2>2. CASE v # w
    <3>1. LocalOK(todo[v], me[v], Len(account), Len(back)) /\ todo'[v] = todo[v]
      BY <1>1, <1>4, <2>2 DEF GoroutinesOK
    <3>2. LocalOK(todo[v], [me[v] EXCEPT !.alone = FALSE], Len(account), Len(back))
      BY <1>2, <3>1, LocalAlone
    <3>3. me'[v] = me[v] \/ me'[v] = [me[v] EXCEPT !.alone = FALSE]
      BY <2>2
    <3> QED
      BY <3>1, <3>2, <3>3
  <2> QED
    BY <2>1, <2>2
<1>6. UNCHANGED Len(account) /\ UNCHANGED Len(back)
  OBVIOUS
<1>7. GoroutinesOK'
  BY <1>5, <1>6 DEF GoroutinesOK
<1>8. BackendsMade'
  BY <1>1 DEF BackendsMade
<1>9. TypeOK'
  BY <1>1, <1>4 DEF TypeOK
<1> QED
  BY <1>7, <1>8, <1>9 DEF BaseInv

(* What Begin does: the rivals of a handler are those that work on a token of  *)
(* the same id, and its locals are what it was called with.                    *)
Rivals(w, id) == {v \in Worker \ {w} : ~Idle(v) /\ me[v].id = id /\ me[v].op \in TokenOps}
Called(w, op, id, t) == [NoLocals EXCEPT !.op = op, !.id = id, !.token = t, !.account = pool[id],
                                         !.alone = Rivals(w, id) = {} /\ TokensAgree(id)]

Begins(w, op, id, t) ==
    /\ w \in scene.crew /\ Idle(w) /\ ops < scene.ops
    /\ op \notin {"create", "delete", "poll"} => pool[id] # 0
    /\ t = "" => op = "create"
    /\ op \notin {"create", "setToken"} => t = CHOOSE x \in scene.tokens : TRUE
    /\ me' = [v \in Goroutine |->
               IF v = w THEN Called(w, op, id, t)
               ELSE IF v \in Rivals(w, id) /\ op \in TokenOps THEN [me[v] EXCEPT !.alone = FALSE]
               ELSE me[v]]
    /\ crossed' = IF Rivals(w, id) # {} /\ op \in TokenOps THEN crossed \cup {id} ELSE crossed
    /\ cleared' = IF op \in {"create", "setToken", "login"} THEN cleared \ {id} ELSE cleared
    /\ todo' = [todo EXCEPT ![w] = Program(op)]
    /\ ops' = ops + 1 /\ raced' = (raced \/ Replacing)
    /\ UNCHANGED <<accounts, clients, vault, flow, states, index, faults>>

(* A handler begins: its program, its locals, and nothing else but marks. *)
LEMMA Begun ==
    ASSUME NEW w \in Worker, Begin(w)
    PROVE  \E op \in scene.operations, id \in Id, t \in scene.tokens \cup {""} : Begins(w, op, id, t)
<1>1. PICK op \in scene.operations, id \in Id, t \in scene.tokens \cup {""} :
        /\ w \in scene.crew /\ Idle(w) /\ ops < scene.ops
        /\ op \notin {"create", "delete", "poll"} => pool[id] # 0
        /\ t = "" => op = "create"
        /\ op \notin {"create", "setToken"} => t = CHOOSE x \in scene.tokens : TRUE
        /\ LET busy == {v \in Worker \ {w} : ~Idle(v) /\ me[v].id = id /\ me[v].op \in TokenOps}
           IN /\ me' = [v \in Goroutine |->
                       IF v = w THEN [NoLocals EXCEPT !.op = op, !.id = id, !.token = t,
                                                      !.account = pool[id], !.alone = busy = {} /\ TokensAgree(id)]
                       ELSE IF v \in busy /\ op \in TokenOps THEN [me[v] EXCEPT !.alone = FALSE]
                       ELSE me[v]]
              /\ crossed' = IF busy # {} /\ op \in TokenOps THEN crossed \cup {id} ELSE crossed
        /\ cleared' = IF op \in {"create", "setToken", "login"} THEN cleared \ {id} ELSE cleared
        /\ todo' = [todo EXCEPT ![w] = Program(op)]
        /\ ops' = ops + 1 /\ raced' = (raced \/ Replacing)
        /\ UNCHANGED <<accounts, clients, vault, flow, states, index, faults>>
  BY DEF Begin
<1>2. /\ me' = [v \in Goroutine |->
               IF v = w THEN Called(w, op, id, t)
               ELSE IF v \in Rivals(w, id) /\ op \in TokenOps THEN [me[v] EXCEPT !.alone = FALSE]
               ELSE me[v]]
      /\ crossed' = IF Rivals(w, id) # {} /\ op \in TokenOps THEN crossed \cup {id} ELSE crossed
  BY <1>1 DEF Rivals, Called
<1>3. Begins(w, op, id, t)
  BY <1>1, <1>2 DEF Begins
<1> QED
  BY <1>3

(* A handler begins. *)
LEMMA BeginBase ==
    ASSUME BaseInv, NEW w \in Worker, Begin(w), UNCHANGED scene
    PROVE  BaseInv'
<1>1. TypeOK /\ scene \in Scenes /\ me \in [Goroutine -> Locals] /\ account \in Seq(AccountRecord)
      /\ pool \in [Id -> 0..Len(account)] /\ Len(account) \in Nat /\ Len(back) \in Nat
  BY Elements DEF BaseInv, TypeOK
<1>2. w \in Goroutine /\ scene.operations \subseteq Operation /\ scene.tokens \subseteq Token
  BY <1>1, AdministrationAssumption DEF Goroutine
<1>11. \A i \in Id : pool[i] \in Nat
  BY <1>1
<1>0. PICK op \in scene.operations, id \in Id, t \in scene.tokens \cup {""} : Begins(w, op, id, t)
  BY Begun
<1>3. /\ op \in scene.operations /\ id \in Id /\ t \in scene.tokens \cup {""}
      /\ op \notin {"create", "delete", "poll"} => pool[id] # 0
      /\ me' = [v \in Goroutine |->
                     IF v = w THEN Called(w, op, id, t)
                     ELSE IF v \in Rivals(w, id) /\ op \in TokenOps THEN [me[v] EXCEPT !.alone = FALSE]
                     ELSE me[v]]
      /\ cleared' = IF op \in {"create", "setToken", "login"} THEN cleared \ {id} ELSE cleared
      /\ todo' = [todo EXCEPT ![w] = Program(op)]
  BY <1>0 DEF Begins
<1>4. UNCHANGED <<account, back, flow, running, pool, vault, states, index>> /\ raced' = (raced \/ Replacing)
  BY DEF Begin, accounts, clients, logins
<1> DEFINE l == Called(w, op, id, t)
<1>5. NoLocals \in Locals /\ NoLocals.queue = {}
  <2>1. NoLocals.queue = {}
    BY DEF NoLocals
  <2> QED
    BY <1>1, <2>1, NoLocalsOK
<1>6. l \in Locals /\ l.account = pool[id] /\ l.queue = {} /\ l.op = op
  <2> DEFINE b == Rivals(w, id) = {} /\ TokensAgree(id)
  <2>1. b \in BOOLEAN
    OBVIOUS
  <2>2. pool[id] \in Nat
    BY <1>11
  <2>4. op \in Operation
    BY <1>2
  <2>5. t \in Tokens
    BY <1>2 DEF Tokens
  <2>3. l = [NoLocals EXCEPT !.op = op, !.id = id, !.token = t, !.account = pool[id], !.alone = b]
    BY DEF Called
  <2> HIDE DEF b, l
  <2> QED
    BY <1>5, <2>1, <2>2, <2>3, <2>4, <2>5 DEF Locals
<1>7. me' \in [Goroutine -> Locals] /\ me'[w] = l
      /\ \A v \in Goroutine \ {w} : me'[v] \in {me[v], [me[v] EXCEPT !.alone = FALSE]}
  <2>1. \A v \in Goroutine : [me[v] EXCEPT !.alone = FALSE] \in Locals /\ me[v] \in Locals
    BY <1>1 DEF Locals
  <2> QED
    BY <1>2, <1>3, <1>6, <2>1
<1> HIDE DEF l
<1>8. op \in Operation /\ (op = "chat" => l.account # 0) /\ l.account \in 0..Len(account)
  BY <1>1, <1>2, <1>3, <1>6
<1>9. LocalOK(Program(op), l, Len(account), Len(back))
  BY <1>1, <1>6, <1>8, LocalBegin
<1>10. cleared' \in SUBSET Id /\ raced' \in BOOLEAN
  BY <1>1, <1>3, <1>4 DEF TypeOK, Replacing
<1> QED
  BY <1>2, <1>3, <1>4, <1>7, <1>9, <1>10, BegunBase

(* A refresh begins. *)
LEMMA TakeSnapshotBase ==
    ASSUME BaseInv, TakeSnapshot, UNCHANGED scene
    PROVE  BaseInv'
<1>1. TypeOK /\ me \in [Goroutine -> Locals] /\ pool \in [Id -> 0..Len(account)]
      /\ Len(account) \in Nat /\ Len(back) \in Nat /\ Refresher \in Goroutine
  BY Elements DEF BaseInv, TypeOK, Goroutine
<1> DEFINE s == {pool[i] : i \in Id} \ {0}
           l == [NoLocals EXCEPT !.queue = s]
<1>2. s \subseteq 1..Len(account) /\ s \in SUBSET Nat
  BY <1>1
<1> HIDE DEF s
<1>3. NoLocals \in Locals /\ NoLocals.account = 0 /\ NoLocals.op = "none" /\ NoLocals.onError = "ignore"
  <2>1. NoLocals.account = 0 /\ NoLocals.op = "none" /\ NoLocals.onError = "ignore"
    BY DEF NoLocals
  <2> QED
    BY <1>1, <2>1, NoLocalsOK
<1>4. l \in Locals /\ l.account = 0 /\ l.op = "none" /\ l.onError = "ignore" /\ l.queue = s
  BY <1>2, <1>3 DEF Locals
<1>5. /\ UNCHANGED <<account, back, flow, running, pool, vault, states, index, cleared>>
      /\ raced' = (raced \/ Replacing)
      /\ me' = [me EXCEPT ![Refresher] = l] /\ todo' = [todo EXCEPT ![Refresher] = <<"visit">>]
  BY DEF TakeSnapshot, accounts, clients, logins, s
<1> HIDE DEF l
<1>6. LocalOK(<<"visit">>, l, Len(account), Len(back))
  <2>1. l \in Locals /\ l.account \in 0..Len(account) /\ l.queue \subseteq 1..Len(account)
    BY <1>1, <1>2, <1>4
  <2> QED
    BY <1>1, <1>4, <2>1, LocalLoop
<1>7. me' \in [Goroutine -> Locals] /\ me'[Refresher] = l
      /\ \A v \in Goroutine \ {Refresher} : me'[v] \in {me[v], [me[v] EXCEPT !.alone = FALSE]}
  BY <1>1, <1>4, <1>5
<1>8. cleared' \in SUBSET Id /\ raced' \in BOOLEAN
  BY <1>1, <1>5 DEF TypeOK, Replacing
<1> QED
  BY <1>1, <1>5, <1>6, <1>7, <1>8, BegunBase

(* The configured accounts in some order, each of them once. *)
LEMMA Ordered ==
    /\ SetToSeq(Configured) \in Seq(Configured)
    /\ \A i \in Configured : \E n \in DOMAIN SetToSeq(Configured) : SetToSeq(Configured)[n] = i
    /\ \A m, n \in DOMAIN SetToSeq(Configured) : SetToSeq(Configured)[m] = SetToSeq(Configured)[n] => m = n
<1> DEFINE c == Cardinality(Configured)
           g == SetToSeq(Configured)
<1>1. IsFiniteSet(Configured)
  BY AdministrationAssumption
<1>2. c \in Nat /\ ExistsBijection(1..c, Configured)
  BY <1>1, FS_CardinalityType
<1>3. \E f \in [1..c -> Configured] : IsInjective(f)
  BY <1>2 DEF ExistsBijection, Bijection, Injection
<1>4. g = CHOOSE f \in [1..c -> Configured] : IsInjective(f)
  BY DEF SetToSeq
<1> HIDE DEF g, c
<1>5. g \in [1..c -> Configured] /\ IsInjective(g)
  BY <1>3, <1>4
<1>6. g \in Injection(1..c, Configured)
  BY <1>5 DEF Injection
<1>7. Cardinality(1..c) = c
  BY <1>2, FS_Interval
<1>8. g \in Surjection(1..c, Configured)
  BY <1>1, <1>6, <1>7, FS_Injection DEF c
<1>9. \A i \in Configured : \E n \in 1..c : g[n] = i
  BY <1>8 DEF Surjection
<1>10. g \in Seq(Configured) /\ DOMAIN g = 1..c
  BY <1>2, <1>5
<1>11. \A m, n \in 1..c : g[m] = g[n] => m = n
  BY <1>5 DEF IsInjective
<1>12. \A i \in Configured : \E n \in DOMAIN g : g[n] = i
  BY <1>9, <1>10
<1>13. \A m, n \in DOMAIN g : g[m] = g[n] => m = n
  BY <1>10, <1>11
<1> QED
  BY <1>10, <1>12, <1>13 DEF g

(* What the first state looks like, index by index. *)
LEMMA InitObjects ==
    ASSUME Init
    PROVE  /\ account \in Seq(AccountRecord) /\ back \in Seq(BackendRecord) /\ Len(account) = Len(back)
           /\ \A n \in 1..Len(account) : /\ account[n].backend = n /\ account[n].token = ""
                                         /\ account[n].id \in Configured /\ pool[account[n].id] = n
           /\ \A n \in 1..Len(back) : back[n].client = 1 /\ back[n].ready
           /\ running = {<<n, 1>> : n \in 1..Len(account)}
           /\ pool \in [Id -> 0..Len(account)]
           /\ \A i \in Id : pool[i] # 0 => account[pool[i]].id = i
<1> DEFINE ids == SetToSeq(Configured)
           d == Len(ids)
<1>1. ids \in Seq(Configured) /\ d \in Nat /\ DOMAIN ids = 1..d
      /\ (\A i \in Configured : \E n \in 1..d : ids[n] = i)
      /\ (\A m, n \in 1..d : ids[m] = ids[n] => m = n)
      /\ (\A n \in 1..d : ids[n] \in Configured)
  <2>1. ids \in Seq(Configured)
    BY Ordered
  <2>2. d \in Nat /\ DOMAIN ids = 1..d /\ \A n \in 1..d : ids[n] \in Configured
    BY <2>1
  <2> QED
    BY <2>1, <2>2, Ordered
<1>2. /\ account = [n \in DOMAIN ids |-> [id |-> ids[n], enabled |-> TRUE, token |-> "", backend |-> n]]
      /\ back = [n \in DOMAIN ids |-> [token |-> ResolveToken(ids[n], ""), client |-> 1, made |-> 1, ready |-> TRUE]]
      /\ running = {<<n, 1>> : n \in DOMAIN ids}
      /\ pool = [i \in Id |-> IF i \in Configured THEN CHOOSE n \in DOMAIN ids : ids[n] = i ELSE 0]
  BY DEF Init
<1> HIDE DEF ids, d
<1>3. /\ account = [n \in 1..d |-> [id |-> ids[n], enabled |-> TRUE, token |-> "", backend |-> n]]
      /\ back = [n \in 1..d |-> [token |-> ResolveToken(ids[n], ""), client |-> 1, made |-> 1, ready |-> TRUE]]
      /\ running = {<<n, 1>> : n \in 1..d}
  <2>1. DOMAIN ids = 1..d
    BY <1>1
  <2>2. account = [n \in 1..d |-> [id |-> ids[n], enabled |-> TRUE, token |-> "", backend |-> n]]
    BY ONLY <1>2, <2>1, Zenon
  <2>3. back = [n \in 1..d |-> [token |-> ResolveToken(ids[n], ""), client |-> 1, made |-> 1, ready |-> TRUE]]
    BY ONLY <1>2, <2>1, Zenon
  <2>4. running = {<<n, 1>> : n \in 1..d}
    BY ONLY <1>2, <2>1, Zenon
  <2> QED
    BY <2>2, <2>3, <2>4
<1>4. \A n \in 1..d : [id |-> ids[n], enabled |-> TRUE, token |-> "", backend |-> n] \in AccountRecord
  <2> TAKE n \in 1..d
  <2>1. ids[n] \in Id
    BY <1>1, AdministrationAssumption
  <2>2. n \in Nat
    BY <1>1
  <2>3. "" \in Tokens
    BY DEF Tokens
  <2> QED
    BY <2>1, <2>2, <2>3 DEF AccountRecord
<1>5. account \in Seq(AccountRecord) /\ Len(account) = d
  <2> DEFINE r(n) == [id |-> ids[n], enabled |-> TRUE, token |-> "", backend |-> n]
  <2>1. account = [n \in 1..d |-> r(n)] /\ \A n \in 1..d : r(n) \in AccountRecord
    BY <1>3, <1>4
  <2> HIDE DEF r
  <2> QED
    BY <1>1, <2>1
<1>6. ASSUME NEW n \in 1..d
      PROVE  [token |-> ResolveToken(ids[n], ""), client |-> 1, made |-> 1, ready |-> TRUE] \in BackendRecord
  <2>1. ids[n] \in Id /\ "" \in Tokens
    BY <1>1, AdministrationAssumption DEF Tokens
  <2>2. scene \in Scenes /\ vault \in [Id -> Tokens]
    BY DEF Init, Tokens
  <2>3. ResolveToken(ids[n], "") \in Tokens
    BY <2>1, <2>2, Resolved
  <2> QED
    BY <2>3 DEF BackendRecord
<1>7. back \in Seq(BackendRecord) /\ Len(back) = d
  <2> DEFINE r(n) == [token |-> ResolveToken(ids[n], ""), client |-> 1, made |-> 1, ready |-> TRUE]
  <2>1. back = [n \in 1..d |-> r(n)] /\ \A n \in 1..d : r(n) \in BackendRecord
    BY <1>3, <1>6
  <2> HIDE DEF r
  <2> QED
    BY <1>1, <2>1
<1> DEFINE At1(i) == CHOOSE n \in DOMAIN ids : ids[n] = i
<1>8. ASSUME NEW i \in Configured
      PROVE  At1(i) \in 1..d /\ ids[At1(i)] = i
  <2>1. \E n \in DOMAIN ids : ids[n] = i
    BY <1>1
  <2>2. At1(i) \in DOMAIN ids /\ ids[At1(i)] = i
    BY <2>1
  <2> QED
    BY <1>1, <2>2
<1>9. pool = [i \in Id |-> IF i \in Configured THEN At1(i) ELSE 0]
  BY <1>2
<1> HIDE DEF At1
<1>16. \A i \in Id : pool[i] = IF i \in Configured THEN At1(i) ELSE 0
  BY <1>9
<1>10. \A n \in 1..d : account[n].id = ids[n] /\ account[n].backend = n /\ account[n].token = ""
  BY <1>3
<1>11. \A n \in 1..d : back[n].client = 1 /\ back[n].ready
  BY <1>3
<1>12. ASSUME NEW n \in 1..d
       PROVE  pool[account[n].id] = n
  <2>1. ids[n] \in Configured /\ ids[n] \in Id
    BY <1>1, AdministrationAssumption
  <2>2. pool[ids[n]] \in 1..d /\ ids[pool[ids[n]]] = ids[n]
    BY <1>8, <1>16, <2>1
  <2>3. account[n].id = ids[n]
    BY <1>10
  <2>4. pool[ids[n]] = n
    BY ONLY <1>1, <2>2
  <2> QED
    BY <2>3, <2>4
<1>13. \A i \in Id : pool[i] \in 0..d /\ (pool[i] # 0 => pool[i] \in 1..d /\ ids[pool[i]] = i)
  BY <1>1, <1>8, <1>16
<1>14. \A i \in Id : pool[i] # 0 => account[pool[i]].id = i
  BY <1>10, <1>13
<1>15. pool \in [Id -> 0..d]
  BY <1>9, <1>13
<1> QED
  BY <1>1, <1>3, <1>5, <1>7, <1>10, <1>11, <1>12, <1>14, <1>15

(* The configured accounts fit. *)
LEMMA InitBase ==
    ASSUME Init
    PROVE  BaseInv
<1>1. /\ account \in Seq(AccountRecord) /\ back \in Seq(BackendRecord) /\ Len(account) = Len(back)
      /\ \A n \in 1..Len(account) : account[n].backend = n
      /\ running = {<<n, 1>> : n \in 1..Len(account)} /\ pool \in [Id -> 0..Len(account)]
  BY InitObjects
<1>2. Len(account) \in Nat /\ Len(back) \in Nat
  BY <1>1, Elements
<1>3. /\ vault \in [Id -> Token \cup {""}] /\ flow = <<>> /\ states = [i \in Id |-> 0] /\ index = Configured
      /\ todo = [w \in Goroutine |-> <<>>] /\ me = [w \in Goroutine |-> NoLocals] /\ scene \in Scenes
      /\ raced \in BOOLEAN /\ cleared = {}
  BY DEF Init
<1>4. NoLocals \in Locals /\ LocalOK(<<>>, NoLocals, Len(account), Len(back))
  BY <1>2, NoLocalsOK
<1>5. GoroutinesOK
  BY <1>3, <1>4 DEF GoroutinesOK
<1>6. BackendsMade
  BY <1>1, <1>2 DEF BackendsMade
<1>7. running \in SUBSET (Nat \X Nat)
  BY <1>1, <1>2
<1>8. vault \in [Id -> Tokens] /\ states \in [Id -> Nat] /\ index \in SUBSET Id /\ flow \in Seq(FlowRecord)
  <2>1. "" \in Tokens
    BY DEF Tokens
  <2>2. Configured \subseteq Id /\ Configured \in SUBSET Id
    BY AdministrationAssumption
  <2>3. vault \in [Id -> Tokens]
    BY <1>3 DEF Tokens
  <2>4. states \in [Id -> Nat]
    BY <1>3
  <2>5. flow \in Seq(FlowRecord)
    <3>1. flow = <<>>
      BY <1>3
    <3>2. \A S : <<>> \in Seq(S)
      OBVIOUS
    <3> QED
      BY ONLY <3>1, <3>2
  <2>6. index \in SUBSET Id
    BY <1>3, <2>2
  <2> QED
    BY <2>3, <2>4, <2>5, <2>6
<1>9. todo \in [Goroutine -> Seq(Step)] /\ me \in [Goroutine -> Locals] /\ cleared \in SUBSET Id
  <2>1. <<>> \in Seq(Step)
    OBVIOUS
  <2>2. todo \in [Goroutine -> Seq(Step)]
    BY <1>3, <2>1
  <2>3. me \in [Goroutine -> Locals]
    BY <1>3, <1>4
  <2> QED
    BY <1>3, <2>2, <2>3
<1> QED
  BY <1>1, <1>3, <1>5, <1>6, <1>7, <1>8, <1>9 DEF BaseInv, TypeOK

(* BaseInv is inductive. *)
LEMMA NextBase ==
    ASSUME BaseInv, [Next]_vars
    PROVE  BaseInv'
<1>1. CASE Next
  <2>1. UNCHANGED scene
    BY <1>1 DEF Next
  <2>2. CASE TakeSnapshot
    BY <2>1, <2>2, TakeSnapshotBase
  <2>3. CASE \E w \in Worker : Begin(w)
    BY <2>1, <2>3, BeginBase
  <2>4. CASE \E w \in Goroutine : Work(w)
    BY <2>1, <2>4, WorkBase
  <2> QED
    BY <1>1, <2>2, <2>3, <2>4 DEF Next
<1>2. CASE UNCHANGED vars
  <2>1. UNCHANGED <<account, back, flow, running, pool, vault, states, index, cleared, raced, scene, todo, me>>
    BY <1>2 DEF vars
  <2>2. TypeOK /\ BackendsMade /\ GoroutinesOK
    BY DEF BaseInv
  <2>3. TypeOK'
    BY <2>1, <2>2 DEF TypeOK
  <2>4. BackendsMade'
    BY <2>1, <2>2 DEF BackendsMade
  <2>5. GoroutinesOK'
    BY <2>1, <2>2 DEF GoroutinesOK
  <2> QED
    BY <2>3, <2>4, <2>5 DEF BaseInv
<1> QED
  BY <1>1, <1>2

(* Spec implies always BaseInv: the type invariant, and what a handler may    *)
(* rely on between two of its steps without holding a lock: the account and   *)
(* the backend it refers to exist, a rebuild closes before it swaps and       *)
(* only what it built, a failed creation gives up only what it installed.     *)
(* pool.go, login.go and the handlers of server.go.                           *)
THEOREM GoroutinesStayInStep == Spec => []BaseInv
<1>1. Init => BaseInv
  BY InitBase
<1>2. BaseInv /\ [Next]_vars => BaseInv'
  BY NextBase
<1> QED
  BY <1>1, <1>2, PTL DEF Spec

-----------------------------------------------------------------------------
(* What a step leaves of ids and tokens: of the accounts, of the pool and of   *)
(* the goroutine that takes it.                                                *)

(* The goroutine keeps the id and the token its handler was called with, and   *)
(* only the vault's step leads to the memory's.                                *)
SameCall(m, l) == m.op = l.op /\ m.id = l.id /\ m.token = l.token
Onward(w) ==
    /\ \A v \in Goroutine \ {w} : todo'[v] = todo[v] /\ me'[v] = me[v]
    /\ \/ todo'[w] = <<>> /\ me'[w] = NoLocals
       \/ /\ SameCall(me'[w], me[w])
          /\ me[w].op # "none" =>
                \/ me'[w].account = me[w].account
                \/ me'[w].account = pool[me[w].id]
                \/ me'[w].account = Len(account) + 1 /\ pool'[me[w].id] = Len(account) + 1
                   /\ account'[Len(account) + 1].id = me[w].id
    /\ todo'[w] # <<>> /\ todo'[w][1] = "memory" => At(w, "store")

(* Accounts keep their id; a token is what it was, or is gone, or is the one   *)
(* that a handler is about to keep.                                            *)
AccountsEffect(w) ==
    /\ Len(account) <= Len(account')
    /\ \A n \in 1..Len(account) :
         /\ account'[n].id = account[n].id
         /\ \/ account'[n].token = account[n].token \/ account'[n].token = ""
            \/ At(w, "memory") /\ n = me[w].account
    /\ \A n \in 1..Len(account') : n \notin 1..Len(account) =>
         account'[n].id = me[w].id /\ (me[w].id \in Vaulted => account'[n].token = "")
PoolEffect(w) ==
    \A i \in Id : \/ pool'[i] = pool[i] \/ pool'[i] = 0
                  \/ i = me[w].id /\ pool'[i] = Len(account) + 1 /\ account'[Len(account) + 1].id = i
Effect(w) == Onward(w) /\ AccountsEffect(w) /\ PoolEffect(w)

(* A goroutine that proceeds with its own call goes onward. *)
LEMMA OnwardStep ==
    ASSUME TypeOK, NEW w \in Goroutine, NEW q, NEW l, Proceed(w, q, l),
           SameCall(l, me[w]),
           me[w].op # "none" =>
                \/ l.account = me[w].account
                \/ l.account = pool[me[w].id]
                \/ l.account = Len(account) + 1 /\ pool'[me[w].id] = Len(account) + 1
                   /\ account'[Len(account) + 1].id = me[w].id,
           q # <<>> /\ q[1] = "memory" => At(w, "store")
    PROVE  Onward(w) /\ todo'[w] = q
<1>1. todo' = [todo EXCEPT ![w] = q] /\ me' = [me EXCEPT ![w] = IF q = <<>> THEN NoLocals ELSE l]
  BY DEF Proceed
<1>2. todo'[w] = q /\ me'[w] = (IF q = <<>> THEN NoLocals ELSE l)
      /\ \A v \in Goroutine \ {w} : todo'[v] = todo[v] /\ me'[v] = me[v]
  BY <1>1 DEF TypeOK
<1> QED
  BY <1>2 DEF Onward

(* Nothing but the vault's step comes before the memory's. *)
LEMMA NoMemory ==
    ASSUME BaseInv, NEW w \in Goroutine, NEW s, At(w, s)
    PROVE  /\ s # "store" => (Rest(w) # <<>> => Rest(w)[1] # "memory")
           /\ s \in RebuildSteps => (AfterRebuild(Rest(w)) # <<>> => AfterRebuild(Rest(w))[1] # "memory")
<1> DEFINE q == todo[w]
<1>1. q \in Seq(Step) /\ q # <<>> /\ q[1] = s /\ Shaped(q)
  BY AtStep DEF BaseInv, LocalOK
<1>2. s # "store" => (Tail(q) # <<>> => Tail(q)[1] # "memory")
  <2>1. Tail(q) # <<>> => 2 \in 1..Len(q) /\ Tail(q)[1] = q[2] /\ 2 - 1 = 1
    BY <1>1
  <2> QED
    BY <1>1, <2>1 DEF Shaped, Follows
<1>3. ASSUME s \in RebuildSteps
      PROVE  AfterRebuild(Tail(q)) # <<>> => AfterRebuild(Tail(q))[1] # "memory"
  <2> DEFINE r == AfterRebuild(Tail(q))
  <2>1. PICK d \in 2..Len(q) : q[d] = "restart" /\ Left(q, r, d)
    BY <1>1, <1>3, AfterRebuildLeft
  <2>2. r \in Seq(Step) /\ Len(r) = Len(q) - d /\ \A i \in 1..Len(r) : r[i] = q[d + i]
    BY <2>1 DEF Left
  <2> HIDE DEF r
  <2>3. r # <<>> => r[1] = q[d + 1] /\ d + 1 \in d..Len(q) /\ d \in 1..Len(q)
    BY <1>1, <2>1, <2>2
  <2>4. r # <<>> => r[1] \notin Meddling
    BY <1>1, <2>1, <2>3 DEF Shaped
  <2> QED
    BY <2>4 DEF r, Meddling
<1> QED
  BY <1>2, <1>3 DEF Rest

(* The updates of the locals that the steps make. *)
LEMMA CallsKept ==
    ASSUME NEW l \in Locals, NEW x, NEW y, NEW z
    PROVE  /\ SameCall([l EXCEPT !.backend = x], l) /\ [l EXCEPT !.backend = x].account = l.account
           /\ SameCall([[l EXCEPT !.backend = x] EXCEPT !.client = y, !.onError = z], l)
           /\ [[l EXCEPT !.backend = x] EXCEPT !.client = y, !.onError = z].account = l.account
           /\ SameCall(Forgotten(l), l) /\ Forgotten(l).account = l.account
           /\ SameCall([l EXCEPT !.account = x], l) /\ [l EXCEPT !.account = x].account = x
           /\ SameCall([l EXCEPT !.account = x, !.backend = y], l) /\ [l EXCEPT !.account = x, !.backend = y].account = x
           /\ SameCall([l EXCEPT !.flow = x], l) /\ [l EXCEPT !.flow = x].account = l.account
           /\ SameCall([l EXCEPT !.queue = x, !.account = y], l)
           /\ SameCall([l EXCEPT !.found = x], l) /\ [l EXCEPT !.found = x].account = l.account
           /\ SameCall(l, l)
BY DEF SameCall, Locals, Forgotten

(* The token of one account is replaced. *)
LEMMA AccountCleared ==
    ASSUME NEW q \in Seq(AccountRecord), NEW n \in Nat, NEW t \in Tokens, NEW s, TokenSet(s, q, n, t)
    PROVE  /\ Len(s) = Len(q)
           /\ \A i \in 1..Len(q) : s[i].id = q[i].id /\ (s[i].token = q[i].token \/ s[i].token = t)
BY AccountToken

(* A number is not less than one that equals it. *)
LEMMA NoLess ==
    ASSUME NEW n \in Nat, NEW m, m = n
    PROVE  n <= m
OBVIOUS

(* Accounts whose tokens change as AccountsEffect allows. *)
LEMMA AccountsChanged ==
    ASSUME Len(account') = Len(account), Len(account) \in Nat, NEW w,
           \A n \in 1..Len(account) :
              /\ account'[n].id = account[n].id
              /\ \/ account'[n].token = account[n].token \/ account'[n].token = ""
                 \/ At(w, "memory") /\ n = me[w].account
    PROVE  AccountsEffect(w)
<1>1. \A n \in 1..Len(account') : n \in 1..Len(account)
  OBVIOUS
<1>2. Len(account) <= Len(account')
  BY NoLess
<1> QED
  BY <1>1, <1>2 DEF AccountsEffect

(* No account changes. *)
LEMMA AccountsKept ==
    ASSUME UNCHANGED account, Len(account) \in Nat, NEW w
    PROVE  AccountsEffect(w)
<1>1. Len(account') = Len(account) /\ account' = account
  OBVIOUS
<1>2. \A n \in 1..Len(account') : n \in 1..Len(account)
  BY <1>1
<1>3. \A n \in 1..Len(account) : account'[n].id = account[n].id /\ account'[n].token = account[n].token
  BY <1>1
<1>4. Len(account) <= Len(account')
  BY <1>1
<1> QED
  BY <1>2, <1>3, <1>4 DEF AccountsEffect

(* A step that leaves accounts and pool alone. *)
LEMMA PlainEffect ==
    ASSUME BaseInv, NEW w \in Goroutine, UNCHANGED <<account, pool>>, NEW q, NEW l, Proceed(w, q, l),
           SameCall(l, me[w]),
           me[w].op # "none" => l.account = me[w].account \/ l.account = pool[me[w].id],
           q # <<>> => q[1] # "memory"
    PROVE  Effect(w)
<1>1. Onward(w) /\ todo'[w] = q
  BY OnwardStep DEF BaseInv
<1>2. Len(account) \in Nat
  BY Elements DEF BaseInv, TypeOK
<1>3. AccountsEffect(w)
  BY <1>2, AccountsKept
<1>4. PoolEffect(w)
  BY DEF PoolEffect
<1> QED
  BY <1>1, <1>3, <1>4 DEF Effect

(* CopilotBackend.Start changes no account, no id and no token. *)
LEMMA BeginStartEffect ==
    ASSUME BaseInv, NEW w \in Goroutine, NEW s, s # "store", At(w, s), NEW b, NEW e, BeginStart(w, b, e),
           UNCHANGED <<account, pool>>
    PROVE  Effect(w)
<1>1. me[w] \in Locals /\ (Rest(w) # <<>> => Rest(w)[1] # "memory")
  BY AtStep, NoMemory DEF BaseInv
<1>2. todo[w] \in Seq(Step) /\ todo[w] # <<>>
  BY AtStep DEF BaseInv
<1>3. CASE back[b].ready
  <2>1. Proceed(w, Rest(w), [me[w] EXCEPT !.backend = b])
    BY <1>3 DEF BeginStart
  <2> QED
    BY <1>1, <2>1, CallsKept, PlainEffect
<1>4. CASE ~back[b].ready
  <2>1. PICK k : Proceed(w, <<"launch">> \o Rest(w), [[me[w] EXCEPT !.backend = b] EXCEPT !.client = k, !.onError = e])
    BY <1>4 DEF BeginStart
  <2>2. (<<"launch">> \o Rest(w))[1] # "memory"
    <3>1. Rest(w) \in Seq(Step)
      BY <1>2 DEF Rest
    <3>2. (<<"launch">> \o Rest(w))[1] = "launch"
      BY <3>1
    <3> QED
      BY <3>2
  <2> QED
    BY <1>1, <2>1, <2>2, CallsKept, PlainEffect
<1> QED
  BY <1>3, <1>4

(* Every step of a handler or of the refresh loop has such an effect. *)
LEMMA WorkEffect ==
    ASSUME BaseInv, NEW w \in Goroutine, Work(w), UNCHANGED scene
    PROVE  Effect(w)
<1>1. TypeOK
  BY DEF BaseInv
<1>2. /\ account \in Seq(AccountRecord) /\ Len(account) \in Nat /\ pool \in [Id -> 0..Len(account)]
      /\ vault \in [Id -> Tokens] /\ me[w] \in Locals /\ todo[w] \in Seq(Step)
  BY <1>1, Elements DEF TypeOK
<1>3. me[w].id \in Id /\ me[w].account \in Nat /\ me[w].token \in Tokens /\ pool[me[w].id] \in Nat
  BY <1>2 DEF Locals
<1>4. SameCall(me[w], me[w])
  BY <1>2, CallsKept
(* The actions that change neither accounts nor pool. *)
<1>5. ASSUME NEW s, NEW e, s # "store", StartAccount(w, s, e)
      PROVE  Effect(w)
  <2>1. At(w, s) /\ UNCHANGED <<account, pool>>
    BY <1>5 DEF StartAccount, accounts, logins
  <2> DEFINE skips == pool[me[w].id] = 0 \/ (s = "addStart" /\ ~account[me[w].account].enabled)
  <2>2. CASE skips
    <3>1. Proceed(w, Rest(w), me[w])
      BY <1>5, <2>2 DEF StartAccount, Continue
    <3>2. Rest(w) # <<>> => Rest(w)[1] # "memory"
      BY <1>5, <2>1, NoMemory
    <3> QED
      BY <1>4, <2>1, <3>1, <3>2, PlainEffect
  <2>3. CASE ~skips
    <3>1. BeginStart(w, account[pool[me[w].id]].backend, e)
      BY <1>5, <2>3 DEF StartAccount
    <3> QED
      BY <1>5, <2>1, <3>1, BeginStartEffect
  <2> QED
    BY <2>2, <2>3
<1>6. ASSUME Sdk(w)
      PROVE  Effect(w)
  <2>1. At(w, "sdk") /\ UNCHANGED <<account, pool>> /\ BeginStart(w, account[me[w].account].backend, "ignore")
    BY <1>6 DEF Sdk, accounts, logins
  <2> QED
    BY <2>1, BeginStartEffect
<1> DEFINE Plain(s) == At(w, s) /\ s # "store" /\ UNCHANGED <<account, pool>>
<1>7. ASSUME NEW s, NEW l, Plain(s), SameCall(l, me[w]),
             me[w].op # "none" => l.account = me[w].account \/ l.account = pool[me[w].id],
             Proceed(w, Rest(w), l) \/ Proceed(w, <<>>, l)
      PROVE  Effect(w)
  <2>1. Rest(w) # <<>> => Rest(w)[1] # "memory"
    BY <1>7, NoMemory
  <2>2. CASE Proceed(w, Rest(w), l)
    BY <1>7, <2>1, <2>2, PlainEffect
  <2>3. CASE Proceed(w, <<>>, l)
    BY <1>7, <2>3, PlainEffect
  <2> QED
    BY <1>7, <2>2, <2>3
<1>8. ASSUME NEW s, NEW l, NEW h, Plain(s), SameCall(l, me[w]), l.account = me[w].account, h # "memory",
             Proceed(w, <<h>> \o Rest(w), l)
      PROVE  Effect(w)
  <2>1. Rest(w) \in Seq(Step)
    BY <1>2, <1>8, AtStep DEF Rest, BaseInv
  <2>2. (<<h>> \o Rest(w))[1] = h
    BY <2>1
  <2> QED
    BY <1>8, <2>2, PlainEffect
<1>9. ASSUME Launch(w)
      PROVE  Effect(w)
  <2>1. Plain("launch") /\ \E h \in {"markReady", "markFailed"} : Proceed(w, <<h>> \o Rest(w), me[w])
    BY <1>9 DEF Launch, accounts, logins
  <2> HIDE DEF Plain
  <2> QED
    BY <1>4, <1>8, <2>1
<1>10. SameCall(Forgotten(me[w]), me[w]) /\ Forgotten(me[w]).account = me[w].account
  BY <1>2, CallsKept
<1>11. ASSUME MarkReady(w)
       PROVE  Effect(w)
  <2>1. Plain("markReady") /\ Proceed(w, Rest(w), Forgotten(me[w]))
    BY <1>11 DEF MarkReady, accounts, logins
  <2> HIDE DEF Plain
  <2> QED
    BY <1>7, <1>10, <2>1
<1>12. ASSUME MarkFailed(w)
       PROVE  Effect(w)
  <2> DEFINE f == Forgotten(me[w])
  <2>1. Plain("markFailed")
    BY <1>12 DEF MarkFailed, accounts, logins
  <2>2. Proceed(w, <<>>, f) \/ Proceed(w, <<"abort">>, f) \/ Proceed(w, Rest(w), f)
    <3> DEFINE err == back[me[w].backend].token = "" /\ me[w].onError # "ignore"
               ends == err /\ me[w].onError = "fail" /\ me[w].op \notin {"logout", "delete"}
               q == IF ends THEN <<>> ELSE IF err /\ me[w].onError = "abort" THEN <<"abort">> ELSE Rest(w)
    <3>1. Proceed(w, q, f)
      BY <1>12 DEF MarkFailed
    <3>2. q = <<>> \/ q = <<"abort">> \/ q = Rest(w)
      OBVIOUS
    <3> HIDE DEF q
    <3> QED
      BY <3>1, <3>2
  <2>3. CASE Proceed(w, <<"abort">>, f)
    <3>1. <<"abort">>[1] # "memory"
      OBVIOUS
    <3> QED
      BY <1>10, <2>1, <2>3, <3>1, PlainEffect
  <2> HIDE DEF Plain
  <2> QED
    BY <1>7, <1>10, <2>1, <2>2, <2>3
<1>13. ASSUME CheckFree(w) \/ Issue(w) \/ Authorize(w) \/ DropState(w) \/ ListAccount(w) \/ InstallFails(w)
       PROVE  Effect(w)
  <2>1. \E s \in {"check", "issue", "authorize", "dropState", "list", "install"} : Plain(s)
    BY <1>13 DEF CheckFree, Issue, Authorize, DropState, ListAccount, InstallFails, accounts, clients, logins
  <2>2. Proceed(w, Rest(w), me[w]) \/ Proceed(w, <<>>, me[w])
    BY <1>13 DEF CheckFree, InstallFails, Issue, Authorize, DropState, ListAccount, Continue, Return
  <2> HIDE DEF Plain
  <2> QED
    BY <1>4, <1>7, <2>1, <2>2
<1>14. ASSUME CloseOld(w)
       PROVE  Effect(w)
  <2>1. Plain("close") /\ Proceed(w, Rest(w), me[w])
    BY <1>14 DEF CloseOld, accounts, logins, Continue
  <2> HIDE DEF Plain
  <2> QED
    BY <1>4, <1>7, <2>1
<1>15. ASSUME BuildBackend(w)
       PROVE  Effect(w)
  <2> DEFINE l == [me[w] EXCEPT !.account = pool[me[w].id], !.backend = Len(back) + 1]
  <2>1. Plain("build")
    BY <1>15 DEF BuildBackend, accounts, logins
  <2>2. \/ Proceed(w, AfterRebuild(Rest(w)), me[w]) \/ Proceed(w, <<>>, me[w])
        \/ Proceed(w, Rest(w), l)
    BY <1>15 DEF BuildBackend, Return
  <2>3. SameCall(l, me[w]) /\ l.account = pool[me[w].id]
    BY <1>2 DEF SameCall, Locals
  <2>4. AfterRebuild(Rest(w)) # <<>> => AfterRebuild(Rest(w))[1] # "memory"
    BY <2>1, NoMemory DEF RebuildSteps
  <2>5. CASE Proceed(w, AfterRebuild(Rest(w)), me[w])
    BY <1>4, <2>1, <2>4, <2>5, PlainEffect
  <2> HIDE DEF Plain, l
  <2> QED
    BY <1>4, <1>7, <2>1, <2>2, <2>3, <2>5
<1>16. ASSUME Look(w)
       PROVE  Effect(w)
  <2> DEFINE l == [me[w] EXCEPT !.flow = states[me[w].id]]
  <2>1. Plain("look")
    BY <1>16 DEF Look, accounts, logins
  <2>2. Proceed(w, RefreshAccount, me[w]) \/ Proceed(w, <<>>, me[w]) \/ Proceed(w, Rest(w), l)
    BY <1>16 DEF Look, Return
  <2>3. SameCall(l, me[w]) /\ l.account = me[w].account
    BY <1>2, CallsKept
  <2>4. RefreshAccount[1] # "memory"
    BY ShapedParts
  <2>5. CASE Proceed(w, RefreshAccount, me[w])
    BY <1>4, <2>1, <2>4, <2>5, PlainEffect
  <2> HIDE DEF Plain, l
  <2> QED
    BY <1>4, <1>7, <2>1, <2>2, <2>3, <2>5
<1>17. ASSUME Exchange(w) \/ Unlist(w)
       PROVE  Effect(w)
  <2> DEFINE l == [me[w] EXCEPT !.account = pool[me[w].id]]
  <2>1. Plain("exchange") \/ Plain("unlist")
    BY <1>17 DEF Exchange, Unlist, accounts, logins
  <2>2. Proceed(w, <<>>, me[w]) \/ Proceed(w, Rest(w), l)
    BY <1>17 DEF Exchange, Unlist, Return
  <2>3. SameCall(l, me[w]) /\ l.account = pool[me[w].id]
    BY <1>2, CallsKept
  <2> HIDE DEF Plain, l
  <2> QED
    BY <1>4, <1>7, <2>1, <2>2, <2>3
<1>18. ASSUME Visit(w)
       PROVE  Effect(w)
  <2>1. Plain("visit")
    BY <1>18 DEF Visit, accounts, logins
  <2>2. CASE me[w].queue = {}
    <3>1. Proceed(w, <<>>, me[w])
      BY <1>18, <2>2 DEF Visit, Return
    <3> HIDE DEF Plain
    <3> QED
      BY <1>4, <1>7, <2>1, <3>1
  <2>3. CASE me[w].queue # {}
    <3>1. PICK a \in me[w].queue :
              Proceed(w, IF account[a].enabled THEN <<"sdk", "gather", "visit">> ELSE <<"visit">>,
                      [me[w] EXCEPT !.queue = @ \ {a}, !.account = a])
      BY <1>18, <2>3 DEF Visit
    <3> DEFINE l == [me[w] EXCEPT !.queue = me[w].queue \ {a}, !.account = a]
    <3>2. Proceed(w, <<"visit">>, l) \/ Proceed(w, <<"sdk", "gather", "visit">>, l)
      BY <3>1
    <3>3. SameCall(l, me[w])
      BY <1>2, CallsKept
    <3>4. me[w].op = "none"
      BY <1>2, <2>3 DEF BaseInv, GoroutinesOK, LocalOK
    <3>5. <<"visit">>[1] # "memory" /\ <<"sdk", "gather", "visit">>[1] # "memory"
      OBVIOUS
    <3> HIDE DEF l
    <3> QED
      BY <2>1, <3>2, <3>3, <3>4, <3>5, PlainEffect
  <2> QED
    BY <2>2, <2>3
<1>19. ASSUME Gather(w)
       PROVE  Effect(w)
  <2> DEFINE l == [me[w] EXCEPT !.found = me[w].found \cup {account[me[w].account].id}]
  <2>1. Plain("gather")
    BY <1>19 DEF Gather, accounts, logins
  <2>2. Proceed(w, Rest(w), me[w]) \/ Proceed(w, Rest(w), l)
    BY <1>19 DEF Gather, Continue
  <2>3. SameCall(l, me[w]) /\ l.account = me[w].account
    BY <1>2, CallsKept
  <2> HIDE DEF Plain, l
  <2> QED
    BY <1>4, <1>7, <2>1, <2>2, <2>3
(* The vault's step. *)
<1>20. ASSUME StoreToken(w)
       PROVE  Effect(w)
  <2>1. At(w, "store") /\ UNCHANGED <<account, pool>>
    BY <1>20 DEF StoreToken, accounts
  <2>2. Proceed(w, Rest(w), me[w]) \/ Proceed(w, <<>>, me[w])
    BY <1>20 DEF StoreToken, Continue, Return
  <2>3. Onward(w)
    <3>1. CASE Proceed(w, Rest(w), me[w])
      BY <1>1, <1>4, <2>1, <3>1, OnwardStep
    <3>2. CASE Proceed(w, <<>>, me[w])
      BY <1>1, <1>4, <3>2, OnwardStep
    <3> QED
      BY <2>2, <3>1, <3>2
  <2>7. AccountsEffect(w)
    BY <1>2, <2>1, AccountsKept
  <2>8. PoolEffect(w)
    BY <2>1 DEF PoolEffect
  <2> QED
    BY <2>3, <2>7, <2>8 DEF Effect
(* The actions that change an account, with the account they change. *)
<1> DEFINE Same == UNCHANGED pool
<1>22. ASSUME Same, Onward(w), AccountsEffect(w), todo'[w] # <<>> => todo'[w][1] # "memory"
       PROVE  Effect(w)
  <2>1. PoolEffect(w)
    BY <1>22 DEF PoolEffect
  <2> QED
    BY <1>22, <2>1 DEF Effect
<1>23. ASSUME NEW s, At(w, s), s # "store", NEW q, Proceed(w, q, me[w]), q = Rest(w) \/ q = <<>> \/ (q = AfterRebuild(Rest(w)) /\ s \in RebuildSteps)
       PROVE  Onward(w) /\ (todo'[w] # <<>> => todo'[w][1] # "memory")
  <2>1. q # <<>> => q[1] # "memory"
    BY <1>23, NoMemory
  <2> QED
    BY <1>1, <1>4, <1>23, <2>1, OnwardStep
<1>24. ASSUME NEW s \in {"enable", "disable"}, NEW e \in BOOLEAN, SetEnabled(w, s, e)
       PROVE  Effect(w)
  <2>1. At(w, s) /\ Same
    BY <1>24 DEF SetEnabled, logins
  <2>2. CASE pool[me[w].id] = 0
    <3>1. UNCHANGED account /\ Proceed(w, <<>>, me[w])
      BY <1>24, <2>2 DEF SetEnabled, Return
    <3>2. <<>> # <<>> => <<>>[1] # "memory"
      OBVIOUS
    <3> QED
      BY <1>4, <2>1, <3>1, <3>2, PlainEffect
  <2>3. CASE pool[me[w].id] # 0
    <3>1. EnabledSet(account', account, pool[me[w].id]) /\ Proceed(w, Rest(w), me[w])
      BY <1>24, <2>3 DEF SetEnabled, Continue, EnabledSet
    <3>2. AccountsEffect(w)
      <4>1. Len(account') = Len(account) /\ \A i \in 1..Len(account) : account'[i].id = account[i].id /\ account'[i].token = account[i].token
        BY <1>2, <1>3, <3>1, AccountEnabled
      <4> QED
        BY <1>2, <4>1, AccountsChanged
    <3> QED
      BY <1>22, <1>23, <1>24, <2>1, <3>1, <3>2
  <2> QED
    BY <2>2, <2>3
<1>25. ASSUME SwapBackend(w)
       PROVE  Effect(w)
  <2>1. At(w, "swap") /\ Same /\ BackendSet(account', account, me[w].account, me[w].backend)
    BY <1>25 DEF SwapBackend, logins, BackendSet
  <2>2. Proceed(w, Rest(w), me[w]) \/ Proceed(w, AfterRebuild(Rest(w)), me[w])
    BY <1>25 DEF SwapBackend, Continue
  <2>3. me[w].backend \in Nat
    BY <1>2 DEF Locals
  <2>4. AccountsEffect(w)
    <3>1. Len(account') = Len(account) /\ \A i \in 1..Len(account) : account'[i].id = account[i].id /\ account'[i].token = account[i].token
      BY <1>2, <1>3, <2>1, <2>3, AccountBackend
    <3> QED
      BY <1>2, <3>1, AccountsChanged
  <2>5. "swap" \in RebuildSteps
    BY DEF RebuildSteps
  <2> QED
    BY <1>22, <1>23, <2>1, <2>2, <2>4, <2>5
<1>26. ASSUME KeepToken(w)
       PROVE  Effect(w)
  <2>1. At(w, "memory") /\ Same /\ TokenSet(account', account, me[w].account, me[w].token)
        /\ Proceed(w, Rest(w), me[w])
    BY <1>26 DEF KeepToken, logins, TokenSet, Continue
  <2>2. AccountsEffect(w)
    <3>1. Len(account') = Len(account)
          /\ \A i \in 1..Len(account) : account'[i].id = account[i].id /\ (i # me[w].account => account'[i].token = account[i].token)
      BY <1>2, <1>3, <2>1, AccountToken
    <3> QED
      BY <1>2, <2>1, <3>1, AccountsChanged
  <2> QED
    BY <1>22, <1>23, <2>1, <2>2
<1>27. ASSUME ClearToken(w)
       PROVE  Effect(w)
  <2>1. At(w, "clear") /\ Same
    BY <1>27 DEF ClearToken, logins
  <2>2. \/ UNCHANGED account /\ Proceed(w, AfterRebuild(Rest(w)), me[w])
        \/ TokenSet(account', account, pool[me[w].id], "") /\ Proceed(w, Rest(w), me[w])
        \/ TokenSet(account', account, pool[me[w].id], "") /\ Proceed(w, <<"dropState">> \o AfterRebuild(Rest(w)), me[w])
    BY <1>27 DEF ClearToken, TokenSet
  <2>3. "" \in Tokens
    BY DEF Tokens
  <2>4. TokenSet(account', account, pool[me[w].id], "") => AccountsEffect(w)
    <3> SUFFICES ASSUME TokenSet(account', account, pool[me[w].id], "")
                 PROVE  AccountsEffect(w)
      OBVIOUS
    <3> DEFINE a == pool[me[w].id]
               e == ""
    <3>1. a \in Nat /\ e \in Tokens /\ TokenSet(account', account, a, e)
      BY <1>2, <1>3, <2>3
    <3> HIDE DEF a, e
    <3>2. Len(account') = Len(account)
          /\ \A i \in 1..Len(account) : account'[i].id = account[i].id
                                         /\ (account'[i].token = account[i].token \/ account'[i].token = e)
      BY ONLY <1>2, <3>1, AccountCleared
    <3>3. e = ""
      BY DEF e
    <3> QED
      BY <1>2, <3>2, <3>3, AccountsChanged
  <2>5. UNCHANGED account => AccountsEffect(w)
    BY <1>2, AccountsKept
  <2>6. "clear" \in RebuildSteps
    BY DEF RebuildSteps
  <2>7. ASSUME Proceed(w, <<"dropState">> \o AfterRebuild(Rest(w)), me[w])
        PROVE  Onward(w) /\ (todo'[w] # <<>> => todo'[w][1] # "memory")
    <3>1. AfterRebuild(Rest(w)) \in Seq(Step)
      <4>1. /\ todo[w] # <<>> /\ todo[w][1] = "clear" /\ LocalOK(todo[w], me[w], Len(account), Len(back))
            /\ Len(account) \in Nat /\ Len(back) \in Nat
        BY <2>1, AtStep DEF BaseInv
      <4>2. LocalOK(AfterRebuild(Tail(todo[w])), me[w], Len(account), Len(back))
        BY <2>6, <4>1, LocalAfterRebuild
      <4> QED
        BY <4>2 DEF LocalOK, Rest
    <3>2. (<<"dropState">> \o AfterRebuild(Rest(w)))[1] = "dropState"
      BY <3>1
    <3> QED
      BY <1>1, <1>4, <2>7, <3>2, OnwardStep
  <2> QED
    BY <1>22, <1>23, <2>1, <2>2, <2>4, <2>5, <2>6, <2>7
(* The actions that change the pool. *)
<1>28. ASSUME UNCHANGED account, NEW n, pool' = [pool EXCEPT ![n] = 0], Onward(w),
              todo'[w] # <<>> => todo'[w][1] # "memory"
       PROVE  Effect(w)
  <2>1. AccountsEffect(w)
    BY <1>2, <1>28, AccountsKept
  <2>2. PoolEffect(w)
    BY <1>2, <1>28 DEF PoolEffect
  <2> QED
    BY <1>28, <2>1, <2>2 DEF Effect
<1>29. ASSUME Abort(w)
       PROVE  Effect(w)
  <2>1. At(w, "abort") /\ UNCHANGED account /\ pool' = [pool EXCEPT ![me[w].id] = 0] /\ Proceed(w, <<>>, me[w])
    BY <1>29 DEF Abort, logins, Return
  <2> QED
    BY <1>23, <1>28, <2>1
<1>30. ASSUME RemoveAccount(w)
       PROVE  Effect(w)
  <2>1. At(w, "remove") /\ UNCHANGED account
        /\ \/ UNCHANGED pool /\ Proceed(w, <<>>, me[w])
           \/ pool' = [pool EXCEPT ![me[w].id] = 0] /\ Proceed(w, Rest(w), me[w])
    BY <1>30 DEF RemoveAccount, logins, Return, Continue
  <2>2. CASE UNCHANGED pool /\ Proceed(w, <<>>, me[w])
    BY <1>22, <1>23, <1>2, <2>1, <2>2, AccountsKept
  <2> QED
    BY <1>23, <1>28, <2>1, <2>2
<1>31. ASSUME Install(w)
       PROVE  Effect(w)
  <2> DEFINE id == me[w].id
             l == [me[w] EXCEPT !.account = Len(account) + 1]
             k == Len(account) + 1
  <2>0. PICK on \in BOOLEAN : Installs(w, on)
    BY <1>31, InstallIs
  <2> DEFINE a == [id |-> id, enabled |-> on, backend |-> Len(back) + 1, token |-> NewToken(w)]
  <2>1. /\ At(w, "install") /\ account' = Append(account, a)
        /\ pool' = [pool EXCEPT ![id] = Len(account) + 1] /\ Proceed(w, Rest(w), l)
    BY <2>0 DEF Installs, logins
  <2>2. SameCall(l, me[w]) /\ l.account = Len(account) + 1
    BY <1>2 DEF SameCall, Locals
  <2>3. a.id = id /\ (id \in Vaulted => a.token = "")
    BY DEF NewToken
  <2> HIDE DEF a, l
  <2>4. Len(account') = Len(account) + 1 /\ (\A i \in 1..Len(account) : account'[i] = account[i])
        /\ account'[Len(account) + 1] = a
    BY <1>2, <2>1
  <2>5. pool'[id] = Len(account) + 1 /\ \A i \in Id : i # id => pool'[i] = pool[i]
    BY <1>2, <1>3, <2>1
  <2>6. Onward(w) /\ (todo'[w] # <<>> => todo'[w][1] # "memory")
    <3>1. Rest(w) # <<>> => Rest(w)[1] # "memory"
      BY <2>1, NoMemory
    <3>2. l.account = Len(account) + 1 /\ pool'[me[w].id] = Len(account) + 1 /\ account'[Len(account) + 1].id = me[w].id
      BY <2>2, <2>3, <2>4, <2>5
    <3> QED
      BY <1>1, <2>1, <2>2, <3>1, <3>2, OnwardStep
  <2>7. AccountsEffect(w)
    <3>1. \A n \in 1..Len(account') : n \notin 1..Len(account) => n = Len(account) + 1
      BY <1>2, <2>4
    <3>2. \A n \in 1..Len(account') : n \notin 1..Len(account) =>
             account'[n].id = me[w].id /\ (me[w].id \in Vaulted => account'[n].token = "")
      BY <2>3, <2>4, <3>1
    <3>3. Len(account) <= Len(account')
      BY <1>2, <2>4
    <3> QED
      BY <2>4, <3>2, <3>3 DEF AccountsEffect
  <2>8. PoolEffect(w)
    BY <2>3, <2>4, <2>5 DEF PoolEffect
  <2> QED
    BY <2>6, <2>7, <2>8 DEF Effect
<1> QED
  <2>1. CASE StartAccount(w, "start", "ignore") \/ StartAccount(w, "addStart", "abort") \/ StartAccount(w, "restart", "fail")
    BY <1>5, <2>1
  <2>2. CASE SetEnabled(w, "enable", TRUE) \/ SetEnabled(w, "disable", FALSE)
    BY <1>24, <2>2
  <2> QED
    BY <2>1, <2>2, <1>6, <1>9, <1>11, <1>12, <1>13, <1>14, <1>15, <1>16, <1>17, <1>18, <1>19, <1>20, <1>25, <1>26, <1>27,
       <1>29, <1>30, <1>31 DEF Work

-----------------------------------------------------------------------------
(* Whose an account is. *)

(* The account that has an id in the pool is of that id, and so is the account *)
(* a handler found or made.                                                    *)
IdsMatch ==
    /\ \A i \in Id : pool[i] # 0 => account[pool[i]].id = i
    /\ \A w \in Goroutine : me[w].op # "none" /\ me[w].account # 0 => account[me[w].account].id = me[w].id

IdsInv == BaseInv /\ IdsMatch

(* No handler runs at the beginning. *)
LEMMA InitIds ==
    ASSUME Init
    PROVE  IdsInv
<1>1. BaseInv
  BY InitBase
<1>2. \A w \in Goroutine : me[w] = NoLocals
  BY DEF Init
<1>3. \A i \in Id : pool[i] # 0 => account[pool[i]].id = i
  BY InitObjects
<1>4. NoLocals.op = "none"
  BY DEF NoLocals
<1> QED
  BY <1>1, <1>2, <1>3, <1>4 DEF IdsInv, IdsMatch

(* Accounts stay with their ids: RebuildBackend and applyToken work on the    *)
(* account they looked up under the id of their handler.                      *)
LEMMA IdsKept ==
    ASSUME BaseInv, BaseInv', IdsMatch, NEW w \in Goroutine, Effect(w)
    PROVE  IdsMatch'
<1>1. /\ Len(account) \in Nat /\ pool \in [Id -> 0..Len(account)]
      /\ \A v \in Goroutine : me[v] \in Locals /\ me[v].account \in 0..Len(account)
  <2>1. Len(account) \in Nat /\ pool \in [Id -> 0..Len(account)] /\ me \in [Goroutine -> Locals]
    BY Elements DEF BaseInv, TypeOK
  <2>2. \A v \in Goroutine : me[v].account \in 0..Len(account)
    BY DEF BaseInv, GoroutinesOK, LocalOK
  <2> QED
    BY <2>1, <2>2
<1>2. \A i \in Id : pool[i] # 0 => account'[pool[i]].id = i
  <2>1. \A i \in Id : pool[i] # 0 => pool[i] \in 1..Len(account)
    BY <1>1
  <2> QED
    BY <2>1 DEF IdsMatch, Effect, AccountsEffect
<1>3. \A i \in Id : pool'[i] # 0 => account'[pool'[i]].id = i
  BY <1>2 DEF Effect, PoolEffect
<1>4. \A v \in Goroutine : me[v].op # "none" /\ me[v].account # 0 => account'[me[v].account].id = me[v].id
  <2>1. \A v \in Goroutine : me[v].account # 0 => me[v].account \in 1..Len(account)
    BY <1>1
  <2> QED
    BY <2>1 DEF IdsMatch, Effect, AccountsEffect
<1>5. ASSUME NEW v \in Goroutine, me'[v].op # "none", me'[v].account # 0
      PROVE  account'[me'[v].account].id = me'[v].id
  <2>1. CASE v # w
    BY <1>4, <1>5, <2>1 DEF Effect, Onward
  <2>2. CASE v = w
    <3>1. me[w].id \in Id
      BY <1>1 DEF Locals
    <3>2. me'[w] # NoLocals /\ SameCall(me'[w], me[w])
      <4>1. NoLocals.op = "none"
        BY DEF NoLocals
      <4> QED
        BY <1>5, <2>2, <4>1 DEF Effect, Onward
    <3>3. me[w].op # "none" /\ me'[w].id = me[w].id
      BY <1>5, <2>2, <3>2 DEF SameCall
    <3>4. \/ me'[w].account = me[w].account
          \/ me'[w].account = pool[me[w].id]
          \/ me'[w].account = Len(account) + 1 /\ account'[Len(account) + 1].id = me[w].id
      BY <3>2, <3>3 DEF Effect, Onward
    <3> QED
      BY <1>2, <1>4, <1>5, <2>2, <3>1, <3>3, <3>4
  <2> QED
    BY <2>1, <2>2
<1> QED
  BY <1>3, <1>5 DEF IdsMatch

(* A new handler begins with its own id and with the account that has the id;  *)
(* TakeSnapshot begins a refresh, which has neither.                           *)
LEMMA BegunIds ==
    ASSUME BaseInv, BaseInv', IdsInv, NEW w \in Goroutine, NEW l, me'[w] = l,
           l.op # "none" => l.id \in Id /\ l.account = pool[l.id],
           \A v \in Goroutine \ {w} : me'[v] \in {me[v], [me[v] EXCEPT !.alone = FALSE]},
           UNCHANGED <<account, pool, scene>>
    PROVE  IdsInv'
<1>1. me \in [Goroutine -> Locals]
  BY DEF BaseInv, TypeOK
<1>2. ASSUME NEW v \in Goroutine \ {w}
      PROVE  me'[v].op = me[v].op /\ me'[v].id = me[v].id /\ me'[v].account = me[v].account
  <2>1. me[v] \in Locals /\ (me'[v] = me[v] \/ me'[v] = [me[v] EXCEPT !.alone = FALSE])
    BY <1>1
  <2> QED
    BY <2>1 DEF Locals
<1>3. ASSUME NEW v \in Goroutine, me'[v].op # "none", me'[v].account # 0
      PROVE  account[me'[v].account].id = me'[v].id
  <2>1. CASE v = w
    BY <1>3, <2>1 DEF IdsInv, IdsMatch
  <2>2. CASE v # w
    BY <1>2, <1>3, <2>2 DEF IdsInv, IdsMatch
  <2> QED
    BY <2>1, <2>2
<1> QED
  BY <1>3 DEF IdsInv, IdsMatch

(* A handler begins. *)
LEMMA BeginIds ==
    ASSUME IdsInv, BaseInv', NEW w \in Worker, Begin(w), UNCHANGED scene
    PROVE  IdsInv'
<1>1. w \in Goroutine /\ BaseInv
  BY DEF Goroutine, IdsInv
<1>2. PICK op \in scene.operations, id \in Id, t \in scene.tokens \cup {""} : Begins(w, op, id, t)
  BY Begun
<1>3. me' = [v \in Goroutine |->
                IF v = w THEN Called(w, op, id, t)
                ELSE IF v \in Rivals(w, id) /\ op \in TokenOps THEN [me[v] EXCEPT !.alone = FALSE]
                ELSE me[v]]
  BY <1>2 DEF Begins
<1>4. UNCHANGED <<account, pool>>
  BY DEF Begin, accounts
<1> DEFINE l == Called(w, op, id, t)
<1>5. l.id = id /\ l.account = pool[id]
  BY DEF NoLocals, Called
<1>6. me'[w] = l /\ \A v \in Goroutine \ {w} : me'[v] \in {me[v], [me[v] EXCEPT !.alone = FALSE]}
  BY <1>1, <1>3
<1> HIDE DEF l
<1>7. l.op # "none" => l.id \in Id /\ l.account = pool[l.id]
  BY <1>5
<1>8. IdsInv /\ BaseInv' /\ UNCHANGED <<account, pool, scene>>
  BY <1>4
<1> QED
  BY ONLY <1>1, <1>6, <1>7, <1>8, BegunIds

(* A refresh begins. *)
LEMMA TakeSnapshotIds ==
    ASSUME IdsInv, BaseInv', TakeSnapshot, UNCHANGED scene
    PROVE  IdsInv'
<1>1. Refresher \in Goroutine /\ BaseInv
  BY DEF Goroutine, IdsInv
<1> DEFINE l == [NoLocals EXCEPT !.queue = {pool[i] : i \in Id} \ {0}]
<1>2. l.op = "none"
  BY DEF NoLocals
<1>3. UNCHANGED <<account, pool>> /\ me' = [me EXCEPT ![Refresher] = l]
  BY DEF TakeSnapshot, accounts
<1> HIDE DEF l
<1>4. me'[Refresher] = l /\ \A v \in Goroutine \ {Refresher} : me'[v] = me[v]
  BY <1>1, <1>3 DEF BaseInv, TypeOK
<1> QED
  BY <1>1, <1>2, <1>3, <1>4, BegunIds

(* IdsInv is inductive. *)
LEMMA NextIds ==
    ASSUME IdsInv, [Next]_vars
    PROVE  IdsInv'
<1>1. BaseInv /\ BaseInv'
  BY NextBase DEF IdsInv
<1>2. CASE Next
  <2>1. UNCHANGED scene
    BY <1>2 DEF Next
  <2>2. CASE TakeSnapshot
    BY <1>1, <2>1, <2>2, TakeSnapshotIds
  <2>3. CASE \E w \in Worker : Begin(w)
    BY <1>1, <2>1, <2>3, BeginIds
  <2>4. CASE \E w \in Goroutine : Work(w)
    <3>1. PICK w \in Goroutine : Work(w)
      BY <2>4
    <3>2. Effect(w)
      BY <1>1, <2>1, <3>1, WorkEffect
    <3> QED
      BY <1>1, <3>2, IdsKept DEF IdsInv
  <2> QED
    BY <1>2, <2>2, <2>3, <2>4 DEF Next
<1>3. CASE UNCHANGED vars
  <2>1. UNCHANGED <<account, pool, me>>
    BY <1>3 DEF vars
  <2> QED
    BY <1>1, <2>1 DEF IdsInv, IdsMatch
<1> QED
  BY <1>2, <1>3

-----------------------------------------------------------------------------
(* Which backend belongs to whom. *)

(* What RebuildBackend has made and not installed yet: no client was made for  *)
(* it, and nobody else can reach it.                                           *)
Private(w) ==
    /\ ~back[me[w].backend].ready /\ back[me[w].backend].client = 0
    /\ \A n \in 1..Len(account) : account[n].backend # me[w].backend
    /\ \A v \in Goroutine \ {w} : Launches(todo[v]) \/ Rebuilds(todo[v]) => me[v].backend # me[w].backend

(* A backend without a client that is ready, or is about to be made ready by a *)
(* Start that a Close overtook, never starts again.                            *)
Doomed(b) ==
    /\ back[b].client = 0
    /\ back[b].ready \/ \E v \in Goroutine : Launches(todo[v]) /\ me[v].backend = b
Replaces(w, n) == todo[w] # <<>> /\ todo[w][1] = "swap" /\ me[w].account = n

BackendsOfTheirOwn ==
    /\ \A m, n \in 1..Len(account) : account[m].backend = account[n].backend => m = n
    /\ \A w \in Goroutine : Rebuilds(todo[w]) => Private(w)
NoneStuck ==
    \A i \in Id : pool[i] # 0 /\ Doomed(account[pool[i]].backend) => \E w \in Goroutine : Replaces(w, pool[i])

UseInv == BaseInv /\ IdsMatch /\ BackendsOfTheirOwn /\ NoneStuck

(* The others wait while w takes a step. *)
OthersWait(w) == \A v \in Goroutine \ {w} : todo'[v] = todo[v] /\ me'[v] = me[v]
SameBackends  == /\ Len(account') = Len(account)
                 /\ \A n \in 1..Len(account) : account'[n].backend = account[n].backend
PoolShrinks   == \A i \in Id : pool'[i] = pool[i] \/ pool'[i] = 0

(* What BaseInv says of the objects a goroutine refers to. *)
LEMMA Owned ==
    ASSUME BaseInv
    PROVE  /\ Len(account) \in Nat /\ Len(back) \in Nat
           /\ \A n \in 1..Len(account) : account[n].backend \in 1..Len(back)
           /\ \A i \in Id : pool[i] # 0 => pool[i] \in 1..Len(account)
           /\ \A v \in Goroutine : Launches(todo[v]) \/ Rebuilds(todo[v]) => me[v].backend \in 1..Len(back)
           /\ \A v \in Goroutine : ~(Launches(todo[v]) /\ Rebuilds(todo[v]))
<1>1. Len(account) \in Nat /\ Len(back) \in Nat /\ pool \in [Id -> 0..Len(account)]
  BY Elements DEF BaseInv, TypeOK
<1>2. \A i \in Id : pool[i] \in 0..Len(account)
  BY <1>1
<1>3. \A i \in Id : pool[i] # 0 => pool[i] \in 1..Len(account)
  BY <1>1, <1>2
<1>4. \A n \in 1..Len(account) : account[n].backend \in 1..Len(back)
  BY DEF BaseInv, BackendsMade
<1>5. \A v \in Goroutine : Launches(todo[v]) \/ Rebuilds(todo[v]) => me[v].backend \in 1..Len(back)
  BY DEF BaseInv, GoroutinesOK, LocalOK
<1>6. \A v \in Goroutine : ~(Launches(todo[v]) /\ Rebuilds(todo[v]))
  BY DEF Launches, Rebuilds, LaunchSteps
<1> QED
  BY <1>1, <1>3, <1>4, <1>5, <1>6

(* A step that closes nothing and gives an account no other backend. *)
LEMMA CalmKeeps ==
    ASSUME UseInv, BaseInv', NEW w \in Goroutine, OthersWait(w), SameBackends, PoolShrinks,
           \A n \in Nat : ~Replaces(w, n),
           Len(back) <= Len(back'),
           \A b \in 1..Len(back) :
              /\ \/ back'[b].client = back[b].client
                 \/ back'[b].client # 0 /\ \E n \in 1..Len(account) : account[n].backend = b
              /\ back'[b].ready => back[b].ready \/ (Launches(todo[w]) /\ me[w].backend = b),
           Launches(todo'[w]) =>
              \/ Launches(todo[w]) /\ me'[w].backend = me[w].backend
              \/ /\ back'[me'[w].backend].client # 0
                 /\ \E n \in 1..Len(account) : account[n].backend = me'[w].backend,
           Rebuilds(todo'[w]) => /\ me'[w].backend = Len(back) + 1
                                 /\ ~back'[Len(back) + 1].ready /\ back'[Len(back) + 1].client = 0
    PROVE  (BackendsOfTheirOwn /\ NoneStuck)'
<1> USE DEF UseInv
<1>1. /\ Len(account) \in Nat /\ Len(back) \in Nat
      /\ \A n \in 1..Len(account) : account[n].backend \in 1..Len(back)
      /\ \A i \in Id : pool[i] # 0 => pool[i] \in 1..Len(account)
      /\ \A v \in Goroutine : Launches(todo[v]) \/ Rebuilds(todo[v]) => me[v].backend \in 1..Len(back)
      /\ \A v \in Goroutine : ~(Launches(todo[v]) /\ Rebuilds(todo[v]))
  BY Owned
<1>2. \A v \in Goroutine : ~(Launches(todo'[v]) /\ Rebuilds(todo'[v]))
  BY DEF Launches, Rebuilds, LaunchSteps
<1>3. ASSUME NEW v \in Goroutine, v # w, Rebuilds(todo'[v])
      PROVE  Private(v)'
  <2> DEFINE b == me[v].backend
  <2>1. todo'[v] = todo[v] /\ me'[v] = me[v]
    BY <1>3 DEF OthersWait
  <2>2. Rebuilds(todo[v]) /\ Private(v) /\ b \in 1..Len(back)
    BY <1>1, <1>3, <2>1 DEF BackendsOfTheirOwn
  <2>3. Launches(todo[w]) => me[w].backend # b
    BY <1>3, <2>2 DEF Private
  <2>4. ~back'[b].ready /\ back'[b].client = 0
    BY <2>2, <2>3 DEF Private
  <2>5. \A n \in 1..Len(account') : account'[n].backend # b
    BY <2>2 DEF Private, SameBackends
  <2>6. ASSUME NEW u \in Goroutine, u # v, Launches(todo'[u]) \/ Rebuilds(todo'[u])
        PROVE  me'[u].backend # b
    <3>1. CASE u # w
      BY <2>2, <2>6, <3>1 DEF Private, OthersWait
    <3>2. CASE u = w /\ Launches(todo'[u])
      BY <2>2, <2>3, <3>2 DEF Private
    <3>3. CASE u = w /\ Rebuilds(todo'[u])
      BY <1>1, <2>2, <3>3
    <3> QED
      BY <2>6, <3>1, <3>2, <3>3
  <2> QED
    BY <2>1, <2>4, <2>5, <2>6 DEF Private
<1>4. ASSUME Rebuilds(todo'[w])
      PROVE  Private(w)'
  <2>1. me'[w].backend = Len(back) + 1 /\ Len(back) + 1 \notin 1..Len(back)
    BY <1>1, <1>4
  <2>2. \A n \in 1..Len(account') : account'[n].backend # Len(back) + 1
    BY <1>1, <2>1 DEF SameBackends
  <2>3. \A u \in Goroutine \ {w} : Launches(todo'[u]) \/ Rebuilds(todo'[u]) => me'[u].backend # Len(back) + 1
    BY <1>1, <2>1 DEF OthersWait
  <2> QED
    BY <1>4, <2>1, <2>2, <2>3 DEF Private
<1>5. BackendsOfTheirOwn'
  <2>1. \A m, n \in 1..Len(account') : account'[m].backend = account'[n].backend => m = n
    BY DEF BackendsOfTheirOwn, SameBackends
  <2>2. \A v \in Goroutine : Rebuilds(todo'[v]) => Private(v)'
    BY <1>3, <1>4
  <2> QED
    BY <2>1, <2>2 DEF BackendsOfTheirOwn
<1>6. ASSUME NEW i \in Id, pool'[i] # 0, Doomed(account[pool[i]].backend)'
      PROVE  \E v \in Goroutine : Replaces(v, pool[i])'
  <2> DEFINE n == pool[i]
             b == account[n].backend
  <2>1. pool'[i] = n /\ n # 0 /\ n \in 1..Len(account) /\ account'[n].backend = b /\ b \in 1..Len(back)
    BY <1>1, <1>6 DEF PoolShrinks, SameBackends
  <2> HIDE DEF n, b
  <2>2. back'[b].client = 0 /\ (back'[b].ready \/ \E v \in Goroutine : Launches(todo'[v]) /\ me'[v].backend = b)
    BY <1>6, <2>1 DEF Doomed
  <2>3. back[b].client = 0
    BY <2>1, <2>2
  <2>4. back[b].ready \/ \E v \in Goroutine : Launches(todo[v]) /\ me[v].backend = b
    <3>1. CASE back'[b].ready
      BY <2>1, <3>1
    <3>2. ASSUME NEW v \in Goroutine, Launches(todo'[v]), me'[v].backend = b
          PROVE  Launches(todo[v]) /\ me[v].backend = b
      <4>1. CASE v # w
        BY <3>2, <4>1 DEF OthersWait
      <4>2. CASE v = w
        BY <2>2, <3>2, <4>2
      <4> QED
        BY <4>1, <4>2
    <3> QED
      BY <2>2, <3>1, <3>2
  <2>5. PICK v \in Goroutine : Replaces(v, n)
    <3>1. Doomed(b)
      BY <2>3, <2>4 DEF Doomed
    <3> QED
      BY <2>1, <3>1 DEF NoneStuck, n, b
  <2>6. v # w
    <3>1. n \in Nat
      BY <1>1, <2>1
    <3> QED
      BY <2>5, <3>1
  <2> QED
    BY <2>1, <2>5, <2>6 DEF Replaces, OthersWait
<1>7. NoneStuck'
  BY <1>6 DEF NoneStuck
<1> QED
  BY <1>5, <1>7

(* A new account with a new backend takes an id in the pool. *)
LEMMA InstallKeeps ==
    ASSUME UseInv, BaseInv', NEW w \in Goroutine, OthersWait(w),
           ~Launches(todo[w]), ~Launches(todo'[w]), ~Rebuilds(todo'[w]), \A n \in Nat : ~Replaces(w, n),
           Len(account') = Len(account) + 1, Len(back') = Len(back) + 1,
           \A n \in 1..Len(account) : account'[n].backend = account[n].backend,
           account'[Len(account) + 1].backend = Len(back) + 1,
           \A b \in 1..Len(back) : back'[b] = back[b],
           ~back'[Len(back) + 1].ready,
           \A i \in Id : pool'[i] = pool[i] \/ pool'[i] = 0 \/ pool'[i] = Len(account) + 1
    PROVE  (BackendsOfTheirOwn /\ NoneStuck)'
<1> USE DEF UseInv
<1>1. /\ Len(account) \in Nat /\ Len(back) \in Nat
      /\ \A n \in 1..Len(account) : account[n].backend \in 1..Len(back)
      /\ \A i \in Id : pool[i] # 0 => pool[i] \in 1..Len(account)
      /\ \A v \in Goroutine : Launches(todo[v]) \/ Rebuilds(todo[v]) => me[v].backend \in 1..Len(back)
  BY Owned
<1>2. /\ 1..Len(account') = 1..Len(account) \cup {Len(account) + 1} /\ Len(account) + 1 \notin 1..Len(account)
      /\ Len(back) + 1 \notin 1..Len(back)
  BY <1>1
<1>3. ASSUME NEW v \in Goroutine, Rebuilds(todo'[v])
      PROVE  Private(v)'
  <2> DEFINE b == me[v].backend
  <2>1. v # w /\ todo'[v] = todo[v] /\ me'[v] = me[v]
    BY <1>3 DEF OthersWait
  <2>2. Rebuilds(todo[v]) /\ Private(v) /\ b \in 1..Len(back)
    BY <1>1, <1>3, <2>1 DEF BackendsOfTheirOwn
  <2>3. ~back'[b].ready /\ back'[b].client = 0
    BY <2>2 DEF Private
  <2>4. \A n \in 1..Len(account') : account'[n].backend # b
    BY <1>2, <2>2 DEF Private
  <2>5. \A u \in Goroutine \ {v} : Launches(todo'[u]) \/ Rebuilds(todo'[u]) => me'[u].backend # b
    BY <2>2 DEF Private, OthersWait
  <2> QED
    BY <2>1, <2>3, <2>4, <2>5 DEF Private
<1>4. BackendsOfTheirOwn'
  <2>1. \A m, n \in 1..Len(account') : account'[m].backend = account'[n].backend => m = n
    BY <1>1, <1>2 DEF BackendsOfTheirOwn
  <2> QED
    BY <1>3, <2>1 DEF BackendsOfTheirOwn
<1>5. ASSUME NEW i \in Id, pool'[i] # 0, Doomed(account[pool[i]].backend)'
      PROVE  \E v \in Goroutine : Replaces(v, pool[i])'
  <2>1. \/ \E v \in Goroutine : Launches(todo'[v]) /\ me'[v].backend = account'[pool'[i]].backend
        \/ back'[account'[pool'[i]].backend].ready
    BY <1>5 DEF Doomed
  <2>2. \A v \in Goroutine : Launches(todo'[v]) => me'[v].backend \in 1..Len(back)
    BY <1>1 DEF OthersWait
  <2>3. pool'[i] # Len(account) + 1
    BY <1>2, <2>1, <2>2
  <2>4. pool'[i] = pool[i] /\ pool[i] \in 1..Len(account)
    BY <1>1, <1>5, <2>3
  <2> DEFINE n == pool[i]
             b == account[n].backend
  <2>5. account'[pool'[i]].backend = b /\ b \in 1..Len(back)
    BY <1>1, <2>4
  <2>6. Doomed(b)
    <3>1. back'[b].client = 0 /\ (back'[b].ready \/ \E v \in Goroutine : Launches(todo'[v]) /\ me'[v].backend = b)
      BY <1>5, <2>5 DEF Doomed
    <3> HIDE DEF b
    <3>2. \A v \in Goroutine : Launches(todo'[v]) /\ me'[v].backend = b => Launches(todo[v]) /\ me[v].backend = b
      BY DEF OthersWait
    <3> QED
      BY <2>5, <3>1, <3>2 DEF Doomed
  <2>7. PICK v \in Goroutine : Replaces(v, n)
    BY <1>5, <2>4, <2>6 DEF NoneStuck
  <2>8. v # w
    <3>1. n \in Nat
      BY <1>1, <2>4
    <3> QED
      BY <2>7, <3>1
  <2> HIDE DEF n
  <2> QED
    BY <2>4, <2>7, <2>8 DEF Replaces, OthersWait, n
<1> QED
  BY <1>4, <1>5 DEF NoneStuck

(* The backend of account a is closed.  It is out of the pool then, or about   *)
(* to be replaced.                                                             *)
LEMMA CloseKeeps ==
    ASSUME UseInv, BaseInv', NEW w \in Goroutine, OthersWait(w), SameBackends, PoolShrinks,
           \A n \in Nat : ~Replaces(w, n),
           NEW a \in 1..Len(account), Len(back') = Len(back),
           \A b \in 1..Len(back) :
              /\ back'[b].client = IF b = account[a].backend THEN 0 ELSE back[b].client
              /\ back'[b].ready => back[b].ready,
           ~Launches(todo'[w]),
           Rebuilds(todo'[w]) => Rebuilds(todo[w]) /\ me'[w].backend = me[w].backend,
           Replaces(w, a)' \/ \A i \in Id : pool'[i] # a
    PROVE  (BackendsOfTheirOwn /\ NoneStuck)'
<1> USE DEF UseInv
<1>1. /\ Len(account) \in Nat /\ Len(back) \in Nat
      /\ \A n \in 1..Len(account) : account[n].backend \in 1..Len(back)
      /\ \A i \in Id : pool[i] # 0 => pool[i] \in 1..Len(account)
      /\ \A v \in Goroutine : Launches(todo[v]) \/ Rebuilds(todo[v]) => me[v].backend \in 1..Len(back)
  BY Owned
<1>2. ASSUME NEW v \in Goroutine, Rebuilds(todo'[v])
      PROVE  Private(v)'
  <2> DEFINE b == me[v].backend
  <2>1. Rebuilds(todo[v]) /\ me'[v].backend = b
    BY <1>2 DEF OthersWait
  <2>2. Private(v) /\ b \in 1..Len(back)
    BY <1>1, <2>1 DEF BackendsOfTheirOwn
  <2>3. ~back'[b].ready /\ back'[b].client = 0
    BY <2>2 DEF Private
  <2>4. \A n \in 1..Len(account') : account'[n].backend # b
    BY <2>2 DEF Private, SameBackends
  <2>5. \A u \in Goroutine \ {v} : Launches(todo'[u]) \/ Rebuilds(todo'[u]) => me'[u].backend # b
    BY <2>2 DEF Private, OthersWait
  <2> QED
    BY <2>1, <2>3, <2>4, <2>5 DEF Private
<1>3. BackendsOfTheirOwn'
  <2>1. \A m, n \in 1..Len(account') : account'[m].backend = account'[n].backend => m = n
    BY DEF BackendsOfTheirOwn, SameBackends
  <2> QED
    BY <1>2, <2>1 DEF BackendsOfTheirOwn
<1>4. ASSUME NEW i \in Id, pool'[i] # 0, Doomed(account[pool[i]].backend)'
      PROVE  \E v \in Goroutine : Replaces(v, pool[i])'
  <2> DEFINE n == pool[i]
             b == account[n].backend
  <2>1. pool'[i] = n /\ n # 0 /\ n \in 1..Len(account) /\ account'[n].backend = b /\ b \in 1..Len(back)
    BY <1>1, <1>4 DEF PoolShrinks, SameBackends
  <2>2. CASE n = a
    BY <1>4, <2>1, <2>2
  <2>3. CASE n # a
    <3>1. b # account[a].backend
      BY <2>1, <2>3 DEF BackendsOfTheirOwn
    <3> HIDE DEF n, b
    <3>2. back'[b].client = 0 /\ (back'[b].ready \/ \E v \in Goroutine : Launches(todo'[v]) /\ me'[v].backend = b)
      BY <1>4, <2>1 DEF Doomed
    <3>3. \A v \in Goroutine : Launches(todo'[v]) /\ me'[v].backend = b => Launches(todo[v]) /\ me[v].backend = b
      BY DEF OthersWait
    <3>4. Doomed(b)
      BY <2>1, <3>1, <3>2, <3>3 DEF Doomed
    <3>5. PICK v \in Goroutine : Replaces(v, n)
      BY <2>1, <3>4 DEF NoneStuck, n, b
    <3>6. n \in Nat
      BY <1>1, <2>1
    <3>7. v # w
      BY <3>5, <3>6
    <3> QED
      BY <2>1, <3>5, <3>7 DEF Replaces, OthersWait
  <2> QED
    BY <2>2, <2>3
<1> QED
  BY <1>3, <1>4 DEF NoneStuck

(* Account a gets the backend that w has made for it. *)
LEMMA SwapKeeps ==
    ASSUME UseInv, BaseInv', NEW w \in Goroutine, OthersWait(w), NEW a \in 1..Len(account), Replaces(w, a),
           UNCHANGED <<back, pool>>, Len(account') = Len(account),
           \A n \in 1..Len(account) : account'[n].backend = IF n = a THEN me[w].backend ELSE account[n].backend,
           ~Launches(todo'[w]), ~Rebuilds(todo'[w])
    PROVE  (BackendsOfTheirOwn /\ NoneStuck)'
<1> USE DEF UseInv
<1>1. /\ Len(account) \in Nat /\ Len(back) \in Nat
      /\ \A n \in 1..Len(account) : account[n].backend \in 1..Len(back)
      /\ \A i \in Id : pool[i] # 0 => pool[i] \in 1..Len(account)
  BY Owned
<1>2. Rebuilds(todo[w]) /\ me[w].account = a
  BY DEF Replaces, Rebuilds
<1>3. Private(w)
  BY <1>2 DEF BackendsOfTheirOwn
<1>4. ASSUME NEW v \in Goroutine, Rebuilds(todo'[v])
      PROVE  Private(v)'
  <2> DEFINE b == me[v].backend
  <2>1. v # w /\ Rebuilds(todo[v]) /\ me'[v].backend = b
    BY <1>4 DEF OthersWait
  <2>2. Private(v) /\ b # me[w].backend
    BY <1>3, <2>1 DEF BackendsOfTheirOwn, Private
  <2>3. ~back'[b].ready /\ back'[b].client = 0
    BY <2>2 DEF Private
  <2>4. \A n \in 1..Len(account') : account'[n].backend # b
    BY <2>2 DEF Private
  <2>5. \A u \in Goroutine \ {v} : Launches(todo'[u]) \/ Rebuilds(todo'[u]) => me'[u].backend # b
    BY <2>2 DEF Private, OthersWait
  <2> QED
    BY <2>1, <2>3, <2>4, <2>5 DEF Private
<1>5. BackendsOfTheirOwn'
  <2>1. \A n \in 1..Len(account) : account[n].backend # me[w].backend
    BY <1>3 DEF Private
  <2>2. \A m, n \in 1..Len(account') : account'[m].backend = account'[n].backend => m = n
    BY <2>1 DEF BackendsOfTheirOwn
  <2> QED
    BY <1>4, <2>2 DEF BackendsOfTheirOwn
<1>6. ASSUME NEW i \in Id, pool'[i] # 0, Doomed(account[pool[i]].backend)'
      PROVE  \E v \in Goroutine : Replaces(v, pool[i])'
  <2> DEFINE n == pool[i]
             c == account'[n].backend
  <2>1. pool'[i] = n /\ n # 0 /\ n \in 1..Len(account)
    BY <1>1, <1>6
  <2>2. back[c].client = 0 /\ (back[c].ready \/ \E v \in Goroutine : Launches(todo'[v]) /\ me'[v].backend = c)
    BY <1>6, <2>1 DEF Doomed
  <2> HIDE DEF n, c
  <2>3. PICK d : d = c /\ back[d].client = 0 /\ (back[d].ready \/ \E v \in Goroutine \ {w} : Launches(todo[v]) /\ me[v].backend = d)
    BY <2>2 DEF OthersWait
  <2>4. n # a
    BY <1>3, <2>1, <2>3 DEF Private, c
  <2>5. d = account[n].backend
    BY <2>1, <2>3, <2>4 DEF c
  <2>6. Doomed(d)
    BY <2>3 DEF Doomed
  <2>7. PICK v \in Goroutine : Replaces(v, n)
    BY <2>1, <2>5, <2>6 DEF NoneStuck, n
  <2>8. v # w
    BY <1>2, <2>4, <2>7 DEF Replaces
  <2> QED
    BY <2>1, <2>7, <2>8 DEF Replaces, OthersWait
<1> QED
  BY <1>5, <1>6 DEF NoneStuck

(* A handler or a refresh begins, and the others go on as before. *)
LEMMA BegunUse ==
    ASSUME UseInv, NEW w \in Goroutine, Idle(w),
           ~Launches(todo'[w]), ~Rebuilds(todo'[w]),
           \A v \in Goroutine \ {w} : /\ todo'[v] = todo[v]
                                      /\ me'[v].account = me[v].account /\ me'[v].backend = me[v].backend,
           UNCHANGED <<account, back, pool>>
    PROVE  (BackendsOfTheirOwn /\ NoneStuck)'
<1>1. ~Launches(todo[w]) /\ ~Rebuilds(todo[w]) /\ \A n : ~Replaces(w, n)
  BY DEF Idle, Launches, Rebuilds, Replaces
<1>2. \A v \in Goroutine : /\ Launches(todo'[v]) => Launches(todo[v]) /\ v # w
                           /\ Rebuilds(todo'[v]) => Rebuilds(todo[v]) /\ v # w
  BY <1>1
<1>3. ASSUME NEW v \in Goroutine, Rebuilds(todo'[v])
      PROVE  Private(v)'
  <2>1. Private(v) /\ me'[v].backend = me[v].backend
    BY <1>2, <1>3 DEF UseInv, BackendsOfTheirOwn
  <2> QED
    BY <1>2, <2>1 DEF Private
<1>4. BackendsOfTheirOwn'
  BY <1>3 DEF UseInv, BackendsOfTheirOwn
<1>5. \A b : Doomed(b)' => Doomed(b)
  BY <1>2 DEF Doomed
<1>6. \A v \in Goroutine : \A n : Replaces(v, n) => Replaces(v, n)'
  BY <1>1 DEF Replaces
<1>7. NoneStuck'
  BY <1>5, <1>6 DEF UseInv, NoneStuck
<1> QED
  BY <1>4, <1>7

(* Every configured account begins with a backend of its own that has a       *)
(* client.                                                                    *)
LEMMA InitUse ==
    ASSUME Init
    PROVE  UseInv
<1>1. BaseInv /\ IdsMatch
  BY InitIds DEF IdsInv
<1>2. \A w \in Goroutine : todo[w] = <<>>
  BY DEF Init
<1>3. /\ \A n \in 1..Len(account) : account[n].backend = n
      /\ Len(account) = Len(back)
      /\ \A n \in 1..Len(back) : back[n].client = 1
  BY InitObjects
<1>4. \A i \in Id : pool[i] # 0 => pool[i] \in 1..Len(account)
  BY <1>1, Owned
<1>5. BackendsOfTheirOwn
  BY <1>2, <1>3 DEF BackendsOfTheirOwn, Rebuilds
<1>6. NoneStuck
  BY <1>3, <1>4 DEF NoneStuck, Doomed
<1> QED
  BY <1>1, <1>5, <1>6 DEF UseInv

-----------------------------------------------------------------------------
(* Every step keeps it. *)
Quiet(q) == ~Launches(q) /\ ~Rebuilds(q)

(* A goroutine that does not make or close a backend is in neither Start nor   *)
(* RebuildBackend afterwards.                                                  *)
LEMMA QuietNext ==
    ASSUME BaseInv, NEW w \in Goroutine, NEW s, At(w, s)
    PROVE  /\ Quiet(<<>>) /\ Quiet(<<"abort">>) /\ ~Launches(Rest(w))
           /\ s \notin {"build", "close"} => Quiet(Rest(w))
           /\ s \in RebuildSteps => Quiet(AfterRebuild(Rest(w))) /\ Quiet(<<"dropState">> \o AfterRebuild(Rest(w)))
           /\ s # "swap" => \A n \in Nat : ~Replaces(w, n)
           /\ s \notin LaunchSteps => ~Launches(todo[w])
<1> DEFINE q == todo[w]
<1>1. q \in Seq(Step) /\ q # <<>> /\ q[1] = s /\ Shaped(q)
  BY AtStep DEF BaseInv, LocalOK
<1>2. Tail(q) # <<>> => /\ Tail(q)[1] \notin LaunchSteps
                        /\ Tail(q)[1] = "close" => s = "build"
                        /\ Tail(q)[1] = "swap" => s = "close"
  <2>1. Tail(q) # <<>> => 2 \in 1..Len(q) /\ Tail(q)[1] = q[2] /\ 2 - 1 = 1
    BY <1>1
  <2> QED
    BY <1>1, <2>1 DEF Shaped, Follows
<1>3. ASSUME s \in RebuildSteps
      PROVE  Quiet(AfterRebuild(Tail(q))) /\ Quiet(<<"dropState">> \o AfterRebuild(Tail(q)))
  <2> DEFINE r == AfterRebuild(Tail(q))
  <2>1. PICK d \in 2..Len(q) : q[d] = "restart" /\ Left(q, r, d)
    BY <1>1, <1>3, AfterRebuildLeft
  <2>2. r \in Seq(Step) /\ Len(r) = Len(q) - d /\ \A i \in 1..Len(r) : r[i] = q[d + i]
    BY <2>1 DEF Left
  <2> HIDE DEF r
  <2>3. r # <<>> => r[1] = q[d + 1] /\ d + 1 \in d..Len(q) /\ d \in 1..Len(q) /\ d + 1 # 1 /\ d + 1 \in 1..Len(q)
    BY <1>1, <2>1, <2>2
  <2>4. r # <<>> => r[1] \notin Meddling /\ r[1] \notin LaunchSteps
    BY <1>1, <2>1, <2>3 DEF Shaped
  <2>5. (<<"dropState">> \o r)[1] = "dropState"
    BY <2>2
  <2> QED
    BY <2>4, <2>5 DEF r, Meddling, Quiet, Launches, Rebuilds, LaunchSteps
<1>4. Quiet(<<>>) /\ Quiet(<<"abort">>)
  BY DEF Quiet, Launches, Rebuilds, LaunchSteps
<1>5. s # "swap" => \A n \in Nat : ~Replaces(w, n)
  BY <1>1 DEF Replaces
<1>6. s \notin LaunchSteps => ~Launches(todo[w])
  BY <1>1 DEF Launches
<1> QED
  BY <1>2, <1>3, <1>4, <1>5, <1>6 DEF Rest, Quiet, Launches, Rebuilds

(* One goroutine proceeds, the others wait. *)
LEMMA Moves ==
    ASSUME BaseInv, NEW w \in Goroutine, NEW q, NEW l, Proceed(w, q, l)
    PROVE  OthersWait(w) /\ todo'[w] = q /\ (q # <<>> => me'[w] = l)
<1>1. todo' = [todo EXCEPT ![w] = q] /\ me' = [me EXCEPT ![w] = IF q = <<>> THEN NoLocals ELSE l]
  BY DEF Proceed
<1> QED
  BY <1>1 DEF BaseInv, TypeOK, OthersWait

(* What does not change keeps its backends, its pool and its length. *)
LEMMA Unchanging ==
    ASSUME BaseInv
    PROVE  /\ UNCHANGED account => SameBackends
           /\ UNCHANGED pool => PoolShrinks
           /\ UNCHANGED back => /\ Len(back) <= Len(back') /\ Len(back') = Len(back)
                                /\ \A b \in 1..Len(back) : back'[b] = back[b]
<1>1. Len(back) \in Nat /\ Len(account) \in Nat
  BY Owned
<1>2. UNCHANGED account => SameBackends
  BY DEF SameBackends
<1>3. UNCHANGED pool => PoolShrinks
  BY DEF PoolShrinks
<1>4. ASSUME UNCHANGED back
      PROVE  /\ Len(back) <= Len(back') /\ Len(back') = Len(back)
             /\ \A b \in 1..Len(back) : back'[b] = back[b]
  <2>1. Len(back') = Len(back) /\ \A b \in 1..Len(back) : back'[b] = back[b]
    BY <1>4
  <2> QED
    BY <1>1, <2>1, NoLess
<1> QED
  BY <1>2, <1>3, <1>4

(* A step that leaves the backends alone and does not make or close one       *)
(* next.                                                                      *)
LEMMA QuietKeeps ==
    ASSUME UseInv, BaseInv', NEW w \in Goroutine, NEW s, At(w, s), s # "swap",
           NEW q, NEW l, Proceed(w, q, l), Quiet(q), UNCHANGED back, SameBackends, PoolShrinks
    PROVE  (BackendsOfTheirOwn /\ NoneStuck)'
<1>1. BaseInv
  BY DEF UseInv
<1>2. OthersWait(w) /\ ~Launches(todo'[w]) /\ ~Rebuilds(todo'[w])
  BY <1>1, Moves DEF Quiet
<1>3. \A n \in Nat : ~Replaces(w, n)
  BY <1>1, QuietNext
<1>4. Len(back) <= Len(back') /\ \A b \in 1..Len(back) : back'[b] = back[b]
  BY <1>1, Unchanging
<1>5. \A b \in 1..Len(back) :
              /\ \/ back'[b].client = back[b].client
                 \/ back'[b].client # 0 /\ \E n \in 1..Len(account) : account[n].backend = b
              /\ back'[b].ready => back[b].ready \/ (Launches(todo[w]) /\ me[w].backend = b)
  BY <1>4
<1>6. Launches(todo'[w]) =>
              \/ Launches(todo[w]) /\ me'[w].backend = me[w].backend
              \/ /\ back'[me'[w].backend].client # 0
                 /\ \E n \in 1..Len(account) : account[n].backend = me'[w].backend
  BY <1>2
<1>7. Rebuilds(todo'[w]) => /\ me'[w].backend = Len(back) + 1
                            /\ ~back'[Len(back) + 1].ready /\ back'[Len(back) + 1].client = 0
  BY <1>2
<1> QED
  BY <1>2, <1>3, <1>4, <1>5, <1>6, <1>7, CalmKeeps

(* CopilotBackend.Start makes clients only for backends some account has. *)
LEMMA BeginStartUse ==
    ASSUME UseInv, BaseInv', NEW w \in Goroutine, NEW s \in {"start", "addStart", "restart", "sdk"}, At(w, s),
           NEW n \in 1..Len(account), NEW e, BeginStart(w, account[n].backend, e), UNCHANGED <<account, pool>>
    PROVE  (BackendsOfTheirOwn /\ NoneStuck)'
<1> DEFINE b == account[n].backend
<1>1. BaseInv /\ b \in 1..Len(back) /\ Len(back) \in Nat /\ back \in Seq(BackendRecord) /\ me[w] \in Locals
      /\ todo[w] \in Seq(Step) /\ todo[w] # <<>>
  BY Owned, AtStep DEF UseInv, BaseInv, TypeOK
<1>2. Quiet(Rest(w)) /\ (\A m \in Nat : ~Replaces(w, m)) /\ ~Launches(todo[w])
  BY <1>1, QuietNext DEF LaunchSteps
<1>3. SameBackends /\ PoolShrinks
  BY <1>1, Unchanging
<1>4. CASE back[b].ready
  <2>1. Proceed(w, Rest(w), [me[w] EXCEPT !.backend = b]) /\ UNCHANGED back
    BY <1>4 DEF BeginStart
  <2> QED
    BY <1>2, <1>3, <2>1, QuietKeeps
<1>5. CASE ~back[b].ready
  <2> DEFINE made == back[b].client = 0
             k == IF made THEN back[b].made + 1 ELSE back[b].client
             j == IF made THEN back[b].made + 1 ELSE back[b].made
             l == [[me[w] EXCEPT !.backend = b] EXCEPT !.client = k, !.onError = e]
  <2>1. back[b] \in BackendRecord
    BY <1>1, Elements
  <2>2. back[b].made \in Nat /\ back[b].client \in Nat
    BY <2>1 DEF BackendRecord
  <2>3. k \in Nat /\ k # 0 /\ j \in Nat
    BY <2>2
  <2>4. /\ back' = [back EXCEPT ![b].client = k, ![b].made = j]
        /\ Proceed(w, <<"launch">> \o Rest(w), l)
    BY <1>5 DEF BeginStart
  <2> HIDE DEF made, k, j
  <2>5. l.backend = b
    BY <1>1 DEF Locals
  <2> HIDE DEF l, b
  <2>6. ClientMade(back', back, b, k, j)
    BY <2>4 DEF ClientMade
  <2>7. Len(back') = Len(back)
    BY <1>1, <2>3, <2>6, BackendMade
  <2>8. \A i \in 1..Len(back) : /\ back'[i].token = back[i].token /\ back'[i].ready = back[i].ready
                                /\ back'[i].client = IF i = b THEN k ELSE back[i].client
    <3>1. back \in Seq(BackendRecord) /\ b \in 1..Len(back) /\ k \in Nat /\ j \in Nat /\ ClientMade(back', back, b, k, j)
      BY <1>1, <2>3, <2>6 DEF b
    <3>2. /\ back' \in Seq(BackendRecord) /\ Len(back') = Len(back)
          /\ \A i \in 1..Len(back) : /\ back'[i].token = back[i].token /\ back'[i].ready = back[i].ready
                                      /\ back'[i].client = IF i = b THEN k ELSE back[i].client
      BY ONLY <3>1, BackendMade
    <3> QED
      BY <3>2
  <2>9. <<"launch">> \o Rest(w) # <<>> /\ ~Rebuilds(<<"launch">> \o Rest(w))
    <3>1. Rest(w) \in Seq(Step)
      BY <1>1 DEF Rest
    <3>2. (<<"launch">> \o Rest(w))[1] = "launch" /\ <<"launch">> \o Rest(w) # <<>>
      BY <3>1
    <3> QED
      BY <3>2 DEF Rebuilds
  <2>10. OthersWait(w) /\ ~Rebuilds(todo'[w]) /\ me'[w].backend = b
    BY <1>1, <2>4, <2>5, <2>9, Moves
  <2>11. b = account[n].backend
    BY DEF b
  <2>12. ASSUME NEW i \in 1..Len(back)
         PROVE  /\ \/ back'[i].client = back[i].client
                   \/ back'[i].client # 0 /\ \E m \in 1..Len(account) : account[m].backend = i
                /\ back'[i].ready => back[i].ready
    <3>1. CASE i = b
      BY <2>3, <2>8, <2>11, <3>1
    <3>2. CASE i # b
      <4>1. back'[i].client = back[i].client
        BY <2>8, <3>2
      <4>2. back'[i].ready = back[i].ready
        BY <2>8
      <4> QED
        BY ONLY <4>1, <4>2
    <3> QED
      BY <3>1, <3>2
  <2>13. back'[me'[w].backend].client # 0 /\ \E m \in 1..Len(account) : account[m].backend = me'[w].backend
    BY <1>1, <2>3, <2>8, <2>10, <2>11
  <2>14. Len(back) <= Len(back')
    BY <1>1, <2>7, NoLess
  <2> QED
    BY <1>2, <1>3, <2>10, <2>12, <2>13, <2>14, CalmKeeps
<1> QED
  BY <1>4, <1>5

(* Every step of a handler or of the refresh loop keeps backends apart and    *)
(* none stuck.                                                                *)
LEMMA WorkUse ==
    ASSUME UseInv, BaseInv', NEW w \in Goroutine, Work(w), UNCHANGED scene
    PROVE  (BackendsOfTheirOwn /\ NoneStuck)'
<1>1. BaseInv /\ IdsMatch
  BY DEF UseInv
<1>2. /\ account \in Seq(AccountRecord) /\ Len(account) \in Nat /\ pool \in [Id -> 0..Len(account)]
      /\ back \in Seq(BackendRecord) /\ Len(back) \in Nat /\ me[w] \in Locals
  BY <1>1, Elements DEF BaseInv, TypeOK
<1>3. /\ me[w].id \in Id /\ me[w].account \in Nat /\ me[w].token \in Tokens /\ me[w].backend \in Nat
      /\ pool[me[w].id] \in Nat
  BY <1>2 DEF Locals
<1>4. \A i \in Id : pool[i] # 0 => pool[i] \in 1..Len(account)
  BY <1>1, Owned
<1>5. Quiet(<<>>) /\ Quiet(<<"abort">>)
  <2>1. Quiet(<<>>)
    BY DEF Quiet, Launches, Rebuilds
  <2>2. Quiet(<<"abort">>)
    BY DEF Quiet, Launches, Rebuilds, LaunchSteps
  <2> QED
    BY <2>1, <2>2
<1> DEFINE Kept == (BackendsOfTheirOwn /\ NoneStuck)'
           Still(s) == At(w, s) /\ s \notin {"build", "close", "swap"} /\ UNCHANGED <<back, pool>>
(* A step after which the goroutine is in neither Start nor RebuildBackend. *)
<1>6. ASSUME NEW s, NEW q, NEW l, Still(s), Proceed(w, q, l), q = Rest(w) \/ Quiet(q), SameBackends
      PROVE  Kept
  <2>1. Quiet(q) /\ PoolShrinks
    BY <1>1, <1>6, QuietNext, Unchanging
  <2> QED
    BY <1>6, <2>1, QuietKeeps
<1>7. UNCHANGED account => SameBackends
  BY <1>1, Unchanging
<1> HIDE DEF Kept
<1>8. ASSUME NEW s \in {"start", "addStart", "restart"}, NEW e, StartAccount(w, s, e)
      PROVE  Kept
  <2>1. At(w, s) /\ UNCHANGED <<account, pool>>
    BY <1>8 DEF StartAccount, accounts
  <2> DEFINE skips == pool[me[w].id] = 0 \/ (s = "addStart" /\ ~account[me[w].account].enabled)
  <2>2. CASE skips
    <3>1. Still(s) /\ Proceed(w, Rest(w), me[w])
      BY <1>8, <2>1, <2>2 DEF StartAccount, Continue
    <3> QED
      BY <1>6, <1>7, <2>1, <3>1
  <2>3. CASE ~skips
    <3>1. BeginStart(w, account[pool[me[w].id]].backend, e)
      BY <1>8, <2>3 DEF StartAccount
    <3>2. pool[me[w].id] \in 1..Len(account)
      BY <1>3, <1>4, <2>3
    <3> QED
      BY <1>8, <2>1, <3>1, <3>2, BeginStartUse DEF Kept
  <2> QED
    BY <2>2, <2>3
<1>9. ASSUME NEW s \in {"sdk", "close", "swap", "abort"}, At(w, s)
      PROVE  me[w].account \in 1..Len(account)
  <2>1. todo[w] # <<>> /\ todo[w][1] = s /\ LocalOK(todo[w], me[w], Len(account), Len(back))
    BY <1>1, <1>9, AtStep DEF BaseInv
  <2>2. me[w].account # 0 /\ me[w].account \in 0..Len(account)
    BY <2>1 DEF LocalOK, NeedsAccount
  <2> QED
    BY <1>2, <2>2
<1>10. ASSUME Sdk(w)
       PROVE  Kept
  <2>1. At(w, "sdk") /\ UNCHANGED <<account, pool>> /\ BeginStart(w, account[me[w].account].backend, "ignore")
    BY <1>10 DEF Sdk, accounts
  <2> QED
    BY <1>9, <2>1, BeginStartUse DEF Kept
<1>11. ASSUME NEW s, At(w, s), s \in LaunchSteps
       PROVE  /\ Launches(todo[w]) /\ me[w].backend \in 1..Len(back)
              /\ \A n \in Nat : ~Replaces(w, n)
              /\ Quiet(Rest(w))
  <2>1. todo[w] # <<>> /\ todo[w][1] = s
    BY <1>1, <1>11, AtStep DEF BaseInv
  <2>2. Launches(todo[w])
    BY <1>11, <2>1 DEF Launches
  <2>3. s \notin {"swap", "build", "close"}
    BY <1>11 DEF LaunchSteps
  <2> QED
    BY <1>1, <1>11, <2>2, <2>3, Owned, QuietNext
<1>12. ASSUME Launch(w)
       PROVE  Kept
  <2>1. At(w, "launch") /\ UNCHANGED <<account, pool, back>> /\ \E h \in {"markReady", "markFailed"} : Proceed(w, <<h>> \o Rest(w), me[w])
    BY <1>12 DEF Launch, accounts
  <2>2. PICK h \in {"markReady", "markFailed"} : Proceed(w, <<h>> \o Rest(w), me[w])
    BY <2>1
  <2>3. Launches(<<h>> \o Rest(w)) /\ ~Rebuilds(<<h>> \o Rest(w)) /\ <<h>> \o Rest(w) # <<>>
    <3>1. Rest(w) \in Seq(Step)
      <4>1. todo[w] \in Seq(Step) /\ todo[w] # <<>>
        BY <1>1, <2>1, AtStep DEF BaseInv
      <4> QED
        BY <4>1 DEF Rest
    <3>2. (<<h>> \o Rest(w))[1] = h /\ <<h>> \o Rest(w) # <<>>
      BY <3>1
    <3> QED
      BY <3>2 DEF Launches, Rebuilds, LaunchSteps
  <2>4. OthersWait(w) /\ ~Rebuilds(todo'[w]) /\ me'[w] = me[w]
    BY <1>1, <2>2, <2>3, Moves
  <2>5. Launches(todo[w]) /\ \A n \in Nat : ~Replaces(w, n)
    BY <1>11, <2>1 DEF LaunchSteps
  <2>6. SameBackends /\ PoolShrinks /\ Len(back) <= Len(back') /\ \A b \in 1..Len(back) : back'[b] = back[b]
    BY <1>1, <2>1, Unchanging
  <2>7. \A b \in 1..Len(back) :
              /\ \/ back'[b].client = back[b].client
                 \/ back'[b].client # 0 /\ \E n \in 1..Len(account) : account[n].backend = b
              /\ back'[b].ready => back[b].ready \/ (Launches(todo[w]) /\ me[w].backend = b)
    BY <2>6
  <2>8. Launches(todo'[w]) =>
              \/ Launches(todo[w]) /\ me'[w].backend = me[w].backend
              \/ /\ back'[me'[w].backend].client # 0
                 /\ \E n \in 1..Len(account) : account[n].backend = me'[w].backend
    BY <2>4, <2>5
  <2>9. Rebuilds(todo'[w]) => /\ me'[w].backend = Len(back) + 1
                              /\ ~back'[Len(back) + 1].ready /\ back'[Len(back) + 1].client = 0
    BY <2>4
  <2> QED
    BY <2>4, <2>5, <2>6, <2>7, <2>8, <2>9, CalmKeeps DEF Kept
<1>13. ASSUME NEW s, s \in LaunchSteps, At(w, s), UNCHANGED <<account, pool>>,
              NEW q, NEW l, Proceed(w, q, l), q = Rest(w) \/ Quiet(q),
              Len(back') = Len(back),
              \A b \in 1..Len(back) : /\ back'[b].client = back[b].client
                                      /\ back'[b].ready => back[b].ready \/ me[w].backend = b
       PROVE  Kept
  <2>1. Launches(todo[w]) /\ Quiet(q) /\ \A n \in Nat : ~Replaces(w, n)
    BY <1>11, <1>13
  <2>2. OthersWait(w) /\ ~Rebuilds(todo'[w]) /\ ~Launches(todo'[w])
    BY <1>1, <1>13, <2>1, Moves DEF Quiet
  <2>3. SameBackends /\ PoolShrinks /\ Len(back) <= Len(back')
    BY <1>1, <1>2, <1>13, Unchanging, NoLess
  <2>4. \A b \in 1..Len(back) :
              /\ \/ back'[b].client = back[b].client
                 \/ back'[b].client # 0 /\ \E n \in 1..Len(account) : account[n].backend = b
              /\ back'[b].ready => back[b].ready \/ (Launches(todo[w]) /\ me[w].backend = b)
    BY <1>13, <2>1
  <2> QED
    BY <2>1, <2>2, <2>3, <2>4, CalmKeeps DEF Kept
<1>14. ASSUME MarkReady(w)
       PROVE  Kept
  <2>1. At(w, "markReady") /\ UNCHANGED <<account, pool>> /\ ReadyAt(back', back, me[w].backend)
        /\ Proceed(w, Rest(w), Forgotten(me[w]))
    BY <1>14 DEF MarkReady, accounts, ReadyAt
  <2>2. /\ back' \in Seq(BackendRecord) /\ Len(back') = Len(back)
        /\ \A i \in 1..Len(back) : /\ back'[i].token = back[i].token /\ back'[i].client = back[i].client
                                   /\ (i = me[w].backend => back'[i].ready) /\ (i # me[w].backend => back'[i].ready = back[i].ready)
    <3>1. back \in Seq(BackendRecord) /\ me[w].backend \in Nat /\ ReadyAt(back', back, me[w].backend)
      BY <1>2, <1>3, <2>1
    <3> QED
      BY ONLY <3>1, BackendReady
  <2>3. ASSUME NEW b \in 1..Len(back)
        PROVE  /\ back'[b].client = back[b].client
               /\ back'[b].ready => back[b].ready \/ me[w].backend = b
    <3>1. CASE b = me[w].backend
      BY <2>2, <3>1
    <3>2. CASE b # me[w].backend
      <4>1. back'[b].client = back[b].client /\ back'[b].ready = back[b].ready
        BY <2>2, <3>2
      <4> QED
        BY ONLY <4>1
    <3> QED
      BY <3>1, <3>2
  <2>4. "markReady" \in LaunchSteps
    BY DEF LaunchSteps
  <2> QED
    BY <1>13, <2>1, <2>2, <2>3, <2>4
<1>15. ASSUME MarkFailed(w)
       PROVE  Kept
  <2>1. At(w, "markFailed") /\ UNCHANGED <<account, pool>> /\ UnreadyAt(back', back, me[w].backend)
    BY <1>15 DEF MarkFailed, accounts, UnreadyAt
  <2>2. \/ Proceed(w, <<>>, Forgotten(me[w])) \/ Proceed(w, <<"abort">>, Forgotten(me[w]))
        \/ Proceed(w, Rest(w), Forgotten(me[w]))
    <3> DEFINE err == back[me[w].backend].token = "" /\ me[w].onError # "ignore"
               ends == err /\ me[w].onError = "fail" /\ me[w].op \notin {"logout", "delete"}
               q == IF ends THEN <<>> ELSE IF err /\ me[w].onError = "abort" THEN <<"abort">> ELSE Rest(w)
    <3>1. Proceed(w, q, Forgotten(me[w]))
      BY <1>15 DEF MarkFailed
    <3>2. q = <<>> \/ q = <<"abort">> \/ q = Rest(w)
      OBVIOUS
    <3> HIDE DEF q
    <3> QED
      BY <3>1, <3>2
  <2>3. /\ back' \in Seq(BackendRecord) /\ Len(back') = Len(back)
        /\ \A i \in 1..Len(back) : /\ back'[i].token = back[i].token /\ back'[i].client = back[i].client
                                   /\ (i = me[w].backend => ~back'[i].ready) /\ (i # me[w].backend => back'[i].ready = back[i].ready)
    <3>1. back \in Seq(BackendRecord) /\ me[w].backend \in Nat /\ UnreadyAt(back', back, me[w].backend)
      BY <1>2, <1>3, <2>1
    <3> QED
      BY ONLY <3>1, BackendUnready
  <2>4. ASSUME NEW b \in 1..Len(back)
        PROVE  /\ back'[b].client = back[b].client
               /\ back'[b].ready => back[b].ready \/ me[w].backend = b
    <3>1. CASE b = me[w].backend
      BY <2>3, <3>1
    <3>2. CASE b # me[w].backend
      <4>1. back'[b].client = back[b].client /\ back'[b].ready = back[b].ready
        BY <2>3, <3>2
      <4> QED
        BY ONLY <4>1
    <3> QED
      BY <3>1, <3>2
  <2>5. "markFailed" \in LaunchSteps
    BY DEF LaunchSteps
  <2> QED
    BY <1>5, <1>13, <2>1, <2>2, <2>3, <2>4, <2>5
(* The steps that leave every backend alone. *)
<1>16. ASSUME CheckFree(w) \/ Issue(w) \/ Authorize(w) \/ DropState(w) \/ ListAccount(w) \/ StoreToken(w)
              \/ Exchange(w) \/ Unlist(w) \/ Gather(w) \/ InstallFails(w)
       PROVE  Kept
  <2>1. \E s \in {"check", "issue", "authorize", "dropState", "list", "store", "exchange", "unlist", "gather", "install"} :
           At(w, s) /\ UNCHANGED <<account, back, pool>>
    BY <1>16 DEF CheckFree, Issue, Authorize, DropState, ListAccount, StoreToken, Exchange, Unlist, Gather, InstallFails,
                 accounts, clients
  <2>2. \E l : Proceed(w, Rest(w), l) \/ Proceed(w, <<>>, l)
    BY <1>16 DEF CheckFree, Issue, Authorize, DropState, ListAccount, StoreToken, Exchange, Unlist, Gather, InstallFails,
                 Continue, Return
  <2>3. PICK s \in {"check", "issue", "authorize", "dropState", "list", "store", "exchange", "unlist", "gather", "install"} :
           At(w, s) /\ UNCHANGED <<account, back, pool>>
    BY <2>1
  <2>4. Still(s) /\ SameBackends
    BY <1>7, <2>3
  <2> HIDE DEF Still
  <2> QED
    BY <1>5, <1>6, <2>2, <2>4
<1>17. ASSUME Look(w)
       PROVE  Kept
  <2>1. At(w, "look") /\ UNCHANGED <<account, back, pool>>
    BY <1>17 DEF Look, accounts, clients
  <2>2. \E l : Proceed(w, RefreshAccount, l) \/ Proceed(w, <<>>, l) \/ Proceed(w, Rest(w), l)
    BY <1>17 DEF Look, Return
  <2>3. Quiet(RefreshAccount)
    BY DEF Quiet, Launches, Rebuilds, LaunchSteps, RefreshAccount
  <2>4. Still("look") /\ SameBackends
    BY <1>7, <2>1
  <2> HIDE DEF Still
  <2> QED
    BY <1>5, <1>6, <2>2, <2>3, <2>4
<1>18. ASSUME Visit(w)
       PROVE  Kept
  <2>1. At(w, "visit") /\ UNCHANGED <<account, back, pool>>
    BY <1>18 DEF Visit, accounts, clients
  <2>2. Quiet(<<"visit">>) /\ Quiet(<<"sdk", "gather", "visit">>)
    BY DEF Quiet, Launches, Rebuilds, LaunchSteps
  <2>3. \E l : Proceed(w, <<>>, l) \/ Proceed(w, <<"visit">>, l) \/ Proceed(w, <<"sdk", "gather", "visit">>, l)
    <3>1. CASE me[w].queue = {}
      BY <1>18, <3>1 DEF Visit, Return
    <3>2. CASE me[w].queue # {}
      <4>1. PICK a \in me[w].queue :
              Proceed(w, IF account[a].enabled THEN <<"sdk", "gather", "visit">> ELSE <<"visit">>,
                      [me[w] EXCEPT !.queue = @ \ {a}, !.account = a])
        BY <1>18, <3>2 DEF Visit
      <4> QED
        BY <4>1
    <3> QED
      BY <3>1, <3>2
  <2>4. Still("visit") /\ SameBackends
    BY <1>7, <2>1
  <2> HIDE DEF Still
  <2> QED
    BY <1>5, <1>6, <2>2, <2>3, <2>4
<1>19. ASSUME NEW s \in {"enable", "disable"}, NEW e \in BOOLEAN, SetEnabled(w, s, e)
       PROVE  Kept
  <2>1. Still(s)
    BY <1>19 DEF SetEnabled, clients
  <2>2. CASE pool[me[w].id] = 0
    <3>1. Proceed(w, <<>>, me[w]) /\ UNCHANGED account
      BY <1>19, <2>2 DEF SetEnabled, Return
    <3> HIDE DEF Still
    <3> QED
      BY <1>5, <1>6, <1>7, <2>1, <3>1
  <2>3. CASE pool[me[w].id] # 0
    <3>1. Proceed(w, Rest(w), me[w]) /\ EnabledSet(account', account, pool[me[w].id])
      BY <1>19, <2>3 DEF SetEnabled, Continue, EnabledSet
    <3>2. SameBackends
      BY <1>2, <1>3, <3>1, AccountEnabled DEF SameBackends
    <3> HIDE DEF Still
    <3> QED
      BY <1>6, <2>1, <3>1, <3>2
  <2> QED
    BY <2>2, <2>3
<1>20. ASSUME NEW a \in Nat, NEW t \in Tokens, TokenSet(account', account, a, t)
       PROVE  SameBackends
  <2>1. Len(account') = Len(account) /\ \A i \in 1..Len(account) : account'[i].backend = account[i].backend
    BY <1>2, <1>20, AccountToken
  <2> QED
    BY <2>1 DEF SameBackends
<1>21. ASSUME KeepToken(w)
       PROVE  Kept
  <2>1. Still("memory") /\ TokenSet(account', account, me[w].account, me[w].token) /\ Proceed(w, Rest(w), me[w])
    BY <1>21 DEF KeepToken, clients, TokenSet, Continue
  <2>2. SameBackends
    BY <1>3, <1>20, <2>1
  <2> HIDE DEF Still
  <2> QED
    BY <1>6, <2>1, <2>2
<1>22. ASSUME ClearToken(w)
       PROVE  Kept
  <2>1. Still("clear")
    BY <1>22 DEF ClearToken, clients
  <2>2. UNCHANGED account \/ TokenSet(account', account, pool[me[w].id], "")
    BY <1>22 DEF ClearToken, TokenSet
  <2>3. \/ Proceed(w, AfterRebuild(Rest(w)), me[w])
        \/ Proceed(w, Rest(w), me[w])
        \/ Proceed(w, <<"dropState">> \o AfterRebuild(Rest(w)), me[w])
    BY <1>22 DEF ClearToken
  <2>4. Quiet(AfterRebuild(Rest(w))) /\ Quiet(<<"dropState">> \o AfterRebuild(Rest(w)))
    <3>1. At(w, "clear") /\ "clear" \in RebuildSteps
      BY <2>1 DEF RebuildSteps
    <3> QED
      BY <1>1, <3>1, QuietNext
  <2>5. SameBackends
    <3>1. "" \in Tokens
      BY DEF Tokens
    <3> QED
      BY <1>3, <1>7, <1>20, <2>2, <3>1
  <2> HIDE DEF Still
  <2> QED
    BY <1>6, <2>1, <2>3, <2>4, <2>5
(* The rebuild of a backend. *)
<1>23. ASSUME BuildBackend(w)
       PROVE  Kept
  <2> DEFINE a == pool[me[w].id]
             l == [me[w] EXCEPT !.account = a, !.backend = Len(back) + 1]
             t == ResolveToken(me[w].id, account[a].token)
  <2>1. At(w, "build") /\ UNCHANGED <<account, pool>>
    BY <1>23 DEF BuildBackend, accounts
  <2>2. \/ UNCHANGED back /\ \E q \in {<<>>, AfterRebuild(Rest(w))} : Proceed(w, q, me[w])
        \/ back' = Append(back, Backend(t)) /\ Proceed(w, Rest(w), l)
    BY <1>23 DEF BuildBackend, Return
  <2>3. Quiet(AfterRebuild(Rest(w))) /\ ~Launches(Rest(w)) /\ \A n \in Nat : ~Replaces(w, n)
    <3>1. "build" \in RebuildSteps
      BY DEF RebuildSteps
    <3> QED
      BY <1>1, <2>1, <3>1, QuietNext
  <2>4. SameBackends /\ PoolShrinks
    BY <1>1, <2>1, Unchanging
  <2>5. CASE UNCHANGED back /\ \E q \in {<<>>, AfterRebuild(Rest(w))} : Proceed(w, q, me[w])
    BY <1>5, <2>1, <2>3, <2>4, <2>5, QuietKeeps DEF Kept
  <2>6. CASE back' = Append(back, Backend(t)) /\ Proceed(w, Rest(w), l)
    <3>1. /\ Len(back') = Len(back) + 1 /\ \A b \in 1..Len(back) : back'[b] = back[b]
          /\ back'[Len(back) + 1] = Backend(t)
      <4> DEFINE x == Backend(t)
      <4> HIDE DEF x
      <4>1. back' = Append(back, x)
        BY <2>6 DEF x
      <4> QED
        BY <1>2, <4>1 DEF x
    <3>2. ~back'[Len(back) + 1].ready /\ back'[Len(back) + 1].client = 0
      BY <3>1 DEF Backend
    <3>3. l.backend = Len(back) + 1
      BY <1>2 DEF Locals
    <3> HIDE DEF l, t
    <3>4. OthersWait(w) /\ ~Launches(todo'[w]) /\ (Rebuilds(todo'[w]) => me'[w].backend = Len(back) + 1)
      <4>1. OthersWait(w) /\ todo'[w] = Rest(w) /\ (Rest(w) # <<>> => me'[w] = l)
        BY <1>1, <2>6, Moves
      <4> QED
        BY <2>3, <3>3, <4>1 DEF Rebuilds
    <3>5. Len(back) <= Len(back')
      BY <1>2, <3>1
    <3>6. \A b \in 1..Len(back) :
              /\ \/ back'[b].client = back[b].client
                 \/ back'[b].client # 0 /\ \E n \in 1..Len(account) : account[n].backend = b
              /\ back'[b].ready => back[b].ready \/ (Launches(todo[w]) /\ me[w].backend = b)
      BY <3>1
    <3>7. Rebuilds(todo'[w]) => /\ me'[w].backend = Len(back) + 1
                                /\ ~back'[Len(back) + 1].ready /\ back'[Len(back) + 1].client = 0
      BY <3>2, <3>4
    <3> QED
      BY <2>3, <2>4, <3>4, <3>5, <3>6, <3>7, CalmKeeps DEF Kept
  <2> QED
    BY <2>2, <2>5, <2>6
<1>24. ASSUME NEW a \in 1..Len(account), Close(w, account[a].backend)
       PROVE  /\ Len(back') = Len(back)
              /\ \A b \in 1..Len(back) : /\ back'[b].client = IF b = account[a].backend THEN 0 ELSE back[b].client
                                         /\ back'[b].ready => back[b].ready
  <2> DEFINE c == account[a].backend
  <2>1. c \in Nat
    BY <1>1, Owned
  <2>2. running \in SUBSET (Nat \X Nat) /\ raced \in BOOLEAN
    BY <1>1 DEF BaseInv, TypeOK
  <2>3. Close(w, c)
    BY <1>24
  <2> HIDE DEF c
  <2>4. /\ Len(back') = Len(back)
        /\ \A i \in 1..Len(back) : /\ back'[i].client = IF i = c THEN 0 ELSE back[i].client
                                   /\ (i = c => ~back'[i].ready) /\ (i # c => back'[i].ready = back[i].ready)
    BY <1>2, <2>1, <2>2, <2>3, Closed
  <2>5. ASSUME NEW b \in 1..Len(back)
        PROVE  back'[b].ready => back[b].ready
    <3>1. CASE b = c
      BY <2>4, <3>1
    <3>2. CASE b # c
      <4>1. back'[b].ready = back[b].ready
        BY <2>4, <3>2
      <4> QED
        BY ONLY <4>1
    <3> QED
      BY <3>1, <3>2
  <2> QED
    BY <2>4, <2>5 DEF c
<1>25. ASSUME CloseOld(w)
       PROVE  Kept
  <2>0. PICK a \in 1..Len(account) : a = me[w].account
    BY <1>9, <1>25 DEF CloseOld
  <2>1. At(w, "close") /\ UNCHANGED <<account, pool>> /\ Close(w, account[a].backend) /\ Proceed(w, Rest(w), me[w])
    BY <1>25, <2>0 DEF CloseOld, accounts, Continue
  <2>2. a \in 1..Len(account) /\ SameBackends /\ PoolShrinks
    BY <1>1, <2>0, <2>1, Unchanging
  <2>3. /\ todo[w] \in Seq(Step) /\ todo[w] # <<>> /\ todo[w][1] = "close" /\ Shaped(todo[w])
    BY <1>1, <2>1, AtStep DEF BaseInv, LocalOK
  <2>4. Rebuilds(todo[w]) /\ \A n \in Nat : ~Replaces(w, n)
    BY <2>3 DEF Rebuilds, Replaces
  <2>5. OthersWait(w) /\ todo'[w] = Rest(w) /\ (Rest(w) # <<>> => me'[w] = me[w])
    BY <1>1, <2>1, Moves
  <2>6. ~Launches(todo'[w])
    BY <1>1, <2>1, <2>5, QuietNext
  <2>7. Rebuilds(todo'[w]) => Rebuilds(todo[w]) /\ me'[w].backend = me[w].backend
    BY <2>4, <2>5 DEF Rebuilds
  <2>8. Rest(w) # <<>> /\ Rest(w)[1] = "swap"
    <3>1. 1 < Len(todo[w]) /\ todo[w][1 + 1] = "swap"
      BY <2>3 DEF Shaped
    <3>2. Rest(w) \in Seq(Step) /\ Len(Rest(w)) = Len(todo[w]) - 1 /\ \A i \in 1..Len(Rest(w)) : Rest(w)[i] = todo[w][i + 1]
      BY <2>3 DEF Rest
    <3> QED
      BY <2>3, <3>1, <3>2
  <2>9. Replaces(w, a)'
    BY <2>0, <2>5, <2>8 DEF Replaces
  <2>10. /\ Len(back') = Len(back)
         /\ \A b \in 1..Len(back) : /\ back'[b].client = IF b = account[a].backend THEN 0 ELSE back[b].client
                                    /\ back'[b].ready => back[b].ready
    BY <1>24, <2>1, <2>2
  <2>11. OthersWait(w) /\ \A n \in Nat : ~Replaces(w, n)
    BY <2>4, <2>5
  <2>12. Replaces(w, a)' \/ \A i \in Id : pool'[i] # a
    BY <2>9
  <2>13. BaseInv' /\ UseInv
    OBVIOUS
  <2> QED
    BY ONLY <2>0, <2>2, <2>6, <2>7, <2>10, <2>11, <2>12, <2>13, CloseKeeps DEF Kept
<1>26. ASSUME SwapBackend(w)
       PROVE  Kept
  <2>0. PICK a \in 1..Len(account) : a = me[w].account
    BY <1>9, <1>26 DEF SwapBackend
  <2>1. At(w, "swap") /\ UNCHANGED <<back, pool>> /\ BackendSet(account', account, a, me[w].backend)
    BY <1>26, <2>0 DEF SwapBackend, clients, BackendSet
  <2>2. PICK q : Proceed(w, q, me[w]) /\ (q = Rest(w) \/ q = AfterRebuild(Rest(w)))
    BY <1>26 DEF SwapBackend, Continue
  <2>3. Quiet(q)
    <3>1. "swap" \in RebuildSteps
      BY DEF RebuildSteps
    <3> QED
      BY <1>1, <2>1, <2>2, <3>1, QuietNext
  <2>4. OthersWait(w) /\ ~Launches(todo'[w]) /\ ~Rebuilds(todo'[w])
    BY <1>1, <2>2, <2>3, Moves DEF Quiet
  <2>5. Replaces(w, a)
    <3>1. todo[w] # <<>> /\ todo[w][1] = "swap"
      BY <1>1, <2>1, AtStep DEF BaseInv
    <3> QED
      BY <2>0, <3>1 DEF Replaces
  <2>6. /\ Len(account') = Len(account)
        /\ \A n \in 1..Len(account) : account'[n].backend = IF n = a THEN me[w].backend ELSE account[n].backend
    <3>1. a \in Nat
      OBVIOUS
    <3>2. account \in Seq(AccountRecord) /\ me[w].backend \in Nat /\ BackendSet(account', account, a, me[w].backend)
      BY <1>2, <1>3, <2>1
    <3>3. /\ Len(account') = Len(account)
          /\ \A i \in 1..Len(account) : account'[i].backend = IF i = a THEN me[w].backend ELSE account[i].backend
      BY ONLY <3>1, <3>2, AccountBackend
    <3> QED
      BY <3>3
  <2> QED
    BY <2>1, <2>4, <2>5, <2>6, SwapKeeps DEF Kept
<1>27. ASSUME Install(w)
       PROVE  Kept
  <2>0. PICK on \in BOOLEAN : Installs(w, on)
    BY <1>27, InstallIs
  <2> DEFINE id == me[w].id
             x == Backend(ResolveToken(id, NewToken(w)))
             y == [id |-> id, enabled |-> on, backend |-> Len(back) + 1, token |-> NewToken(w)]
             l == [me[w] EXCEPT !.account = Len(account) + 1]
  <2>1. /\ At(w, "install") /\ Proceed(w, Rest(w), l)
        /\ back' = Append(back, x) /\ account' = Append(account, y)
        /\ pool' = [pool EXCEPT ![id] = Len(account) + 1]
    BY <2>0 DEF Installs
  <2>2. ~x.ready /\ y.backend = Len(back) + 1
    BY DEF Backend
  <2> HIDE DEF x, y, l
  <2>3. /\ Len(account') = Len(account) + 1 /\ Len(back') = Len(back) + 1
        /\ \A n \in 1..Len(account) : account'[n] = account[n]
        /\ account'[Len(account) + 1] = y
        /\ \A b \in 1..Len(back) : back'[b] = back[b]
        /\ back'[Len(back) + 1] = x
    BY <1>2, <2>1
  <2>4. \A i \in Id : pool'[i] = pool[i] \/ pool'[i] = 0 \/ pool'[i] = Len(account) + 1
    BY <1>2, <2>1
  <2>5. Quiet(Rest(w)) /\ (\A n \in Nat : ~Replaces(w, n)) /\ ~Launches(todo[w])
    <3>1. "install" \notin {"build", "close", "swap"} \cup LaunchSteps
      BY DEF LaunchSteps
    <3>2. At(w, "install")
      BY <2>1
    <3> QED
      BY <1>1, <3>1, <3>2, QuietNext
  <2>6. OthersWait(w) /\ ~Launches(todo'[w]) /\ ~Rebuilds(todo'[w])
    BY <1>1, <2>1, <2>5, Moves DEF Quiet
  <2>7. /\ \A n \in 1..Len(account) : account'[n].backend = account[n].backend
        /\ account'[Len(account) + 1].backend = Len(back) + 1
        /\ ~back'[Len(back) + 1].ready
    BY <2>2, <2>3
  <2> QED
    BY <2>3, <2>4, <2>5, <2>6, <2>7, InstallKeeps DEF Kept
(* The backend of an account that leaves the pool is closed. *)
<1>28. ASSUME NEW s \in {"abort", "remove"}, At(w, s), NEW a \in 1..Len(account), account[a].id = me[w].id,
              pool' = [pool EXCEPT ![me[w].id] = 0], Close(w, account[a].backend), UNCHANGED account,
              NEW q, Proceed(w, q, me[w]), q = <<>> \/ q = Rest(w)
       PROVE  Kept
  <2>1. SameBackends /\ PoolShrinks
    <3>1. \A i \in Id : pool'[i] = pool[i] \/ pool'[i] = 0
      BY <1>2, <1>28
    <3> QED
      BY <1>1, <1>28, <3>1, Unchanging DEF PoolShrinks
  <2>2. \A i \in Id : pool'[i] # a
    <3> SUFFICES ASSUME NEW i \in Id, pool'[i] = a
                 PROVE  FALSE
      OBVIOUS
    <3>1. a # 0
      OBVIOUS
    <3>2. i # me[w].id /\ pool[i] = a
      BY <1>2, <1>28, <3>1
    <3> QED
      BY <1>1, <1>28, <3>1, <3>2 DEF IdsMatch
  <2>3. Quiet(q) /\ \A n \in Nat : ~Replaces(w, n)
    BY <1>1, <1>5, <1>28, QuietNext
  <2>4. OthersWait(w) /\ ~Launches(todo'[w]) /\ ~Rebuilds(todo'[w])
    BY <1>1, <1>28, <2>3, Moves DEF Quiet
  <2>5. /\ Len(back') = Len(back)
        /\ \A b \in 1..Len(back) : /\ back'[b].client = IF b = account[a].backend THEN 0 ELSE back[b].client
                                   /\ back'[b].ready => back[b].ready
    BY <1>24, <1>28
  <2>6. BaseInv' /\ UseInv
    OBVIOUS
  <2> QED
    BY ONLY <2>1, <2>2, <2>3, <2>4, <2>5, <2>6, CloseKeeps DEF Kept
<1>29. ASSUME Abort(w)
       PROVE  Kept
  <2>1. PICK a \in 1..Len(account) : a = me[w].account
    BY <1>9, <1>29 DEF Abort
  <2>2. /\ At(w, "abort") /\ pool' = [pool EXCEPT ![me[w].id] = 0] /\ Close(w, account[a].backend)
        /\ UNCHANGED account /\ Proceed(w, <<>>, me[w])
    BY <1>29, <2>1 DEF Abort, Return
  <2>3. me[w].op # "none"
    <3>1. todo[w] # <<>> /\ todo[w][1] = "abort" /\ todo[w] \in Seq(StepsOf(me[w].op))
      BY <1>1, <2>2, AtStep DEF BaseInv, LocalOK
    <3>2. "abort" \in StepsOf(me[w].op)
      BY <3>1, StepsStay
    <3> QED
      BY <3>2 DEF StepsOf
  <2>4. account[a].id = me[w].id
    BY <1>1, <2>1, <2>3 DEF IdsMatch
  <2> QED
    BY <1>28, <2>2, <2>4
<1>30. ASSUME RemoveAccount(w)
       PROVE  Kept
  <2>1. At(w, "remove") /\ UNCHANGED account
    BY <1>30 DEF RemoveAccount
  <2>2. CASE pool[me[w].id] = 0
    <3>1. UNCHANGED <<back, pool>> /\ Proceed(w, <<>>, me[w])
      BY <1>30, <2>2 DEF RemoveAccount, clients, Return
    <3>2. Still("remove") /\ SameBackends
      BY <1>7, <2>1, <3>1
    <3> HIDE DEF Still
    <3> QED
      BY <1>5, <1>6, <3>1, <3>2
  <2>3. CASE pool[me[w].id] # 0
    <3>1. PICK a \in 1..Len(account) : a = pool[me[w].id]
      BY <1>3, <1>4, <2>3
    <3>2. pool' = [pool EXCEPT ![me[w].id] = 0] /\ Close(w, account[a].backend) /\ Proceed(w, Rest(w), me[w])
      BY <1>30, <2>3, <3>1 DEF RemoveAccount, Continue
    <3>3. account[a].id = me[w].id
      BY <1>1, <1>3, <2>3, <3>1 DEF IdsMatch
    <3> QED
      BY <1>28, <2>1, <3>2, <3>3
  <2> QED
    BY <2>2, <2>3
<1>31. Kept
  <2> HIDE DEF Still
  <2>1. CASE StartAccount(w, "start", "ignore") \/ StartAccount(w, "addStart", "abort") \/ StartAccount(w, "restart", "fail")
    BY <1>8, <2>1
  <2>2. CASE SetEnabled(w, "enable", TRUE) \/ SetEnabled(w, "disable", FALSE)
    BY <1>19, <2>2
  <2> QED
    BY <1>10, <1>12, <1>14, <1>15, <1>16, <1>17, <1>18, <1>21, <1>22, <1>23, <1>25, <1>26, <1>27, <1>29, <1>30,
       <2>1, <2>2 DEF Work
<1> QED
  BY <1>31 DEF Kept

(* The refresh loop is no handler. *)
LoopIsNoHandler == me[Refresher].op = "none"

(* A handler begins. *)
LEMMA BeginUse ==
    ASSUME UseInv, LoopIsNoHandler, BaseInv', NEW w \in Worker, Begin(w), UNCHANGED scene
    PROVE  (BackendsOfTheirOwn /\ NoneStuck)' /\ LoopIsNoHandler'
<1>1. w \in Goroutine /\ BaseInv /\ Refresher \in Goroutine /\ Refresher # w
  BY AdministrationAssumption DEF Goroutine, UseInv
<1>2. scene \in Scenes /\ scene.operations \subseteq Operation
  BY <1>1, AdministrationAssumption DEF BaseInv, TypeOK
<1>0. PICK op \in scene.operations, id \in Id, t \in scene.tokens \cup {""} : Begins(w, op, id, t)
  BY Begun
<1>3. /\ op \in scene.operations /\ id \in Id /\ t \in scene.tokens \cup {""}
      /\ me' = [v \in Goroutine |->
                     IF v = w THEN Called(w, op, id, t)
                     ELSE IF v \in Rivals(w, id) /\ op \in TokenOps THEN [me[v] EXCEPT !.alone = FALSE]
                     ELSE me[v]]
      /\ todo' = [todo EXCEPT ![w] = Program(op)]
  BY <1>0 DEF Begins
<1>4. UNCHANGED <<account, back, pool>> /\ Idle(w)
  BY DEF Begin, accounts, clients
<1>5. \A v \in Goroutine \ {w} : me'[v] \in {me[v], [me[v] EXCEPT !.alone = FALSE]}
  <2> QED
    BY <1>1, <1>3
<1>6. ASSUME NEW v \in Goroutine \ {w}
      PROVE  /\ me'[v].account = me[v].account /\ me'[v].backend = me[v].backend
             /\ me'[v].op = me[v].op
  <2>1. me[v] \in Locals
    BY <1>1 DEF BaseInv, TypeOK
  <2>2. me'[v] = me[v] \/ me'[v] = [me[v] EXCEPT !.alone = FALSE]
    BY <1>5
  <2> QED
    BY <2>1, <2>2 DEF Locals
<1>7. todo'[w] = Program(op) /\ \A v \in Goroutine \ {w} : todo'[v] = todo[v]
  BY <1>1, <1>3 DEF BaseInv, TypeOK
<1>8. ~Launches(Program(op)) /\ ~Rebuilds(Program(op))
  <2>1. op \in Operation
    BY <1>2, <1>3
  <2>2. Program(op)[1] \in {"enable", "disable", "store", "clear", "issue", "look", "unlist", "sdk"}
    BY <2>1, ShapedPrograms
  <2> QED
    BY <2>2 DEF Launches, Rebuilds, LaunchSteps
<1>9. (BackendsOfTheirOwn /\ NoneStuck)'
  BY <1>1, <1>4, <1>6, <1>7, <1>8, BegunUse
<1> QED
  BY <1>1, <1>6, <1>9 DEF LoopIsNoHandler

(* A refresh begins. *)
LEMMA TakeSnapshotUse ==
    ASSUME UseInv, BaseInv', TakeSnapshot, UNCHANGED scene
    PROVE  (BackendsOfTheirOwn /\ NoneStuck)' /\ LoopIsNoHandler'
<1>1. Refresher \in Goroutine /\ BaseInv
  BY DEF Goroutine, UseInv
<1> DEFINE l == [NoLocals EXCEPT !.queue = {pool[i] : i \in Id} \ {0}]
<1>2. l.op = "none"
  BY DEF NoLocals
<1>3. /\ UNCHANGED <<account, back, pool>> /\ Idle(Refresher)
      /\ me' = [me EXCEPT ![Refresher] = l] /\ todo' = [todo EXCEPT ![Refresher] = <<"visit">>]
  BY DEF TakeSnapshot, accounts, clients
<1> HIDE DEF l
<1>4. /\ me'[Refresher] = l /\ todo'[Refresher] = <<"visit">>
      /\ \A v \in Goroutine \ {Refresher} : todo'[v] = todo[v] /\ me'[v] = me[v]
  BY <1>1, <1>3 DEF BaseInv, TypeOK
<1>5. ~Launches(<<"visit">>) /\ ~Rebuilds(<<"visit">>)
  BY DEF Launches, Rebuilds, LaunchSteps
<1>6. (BackendsOfTheirOwn /\ NoneStuck)'
  BY <1>1, <1>3, <1>4, <1>5, BegunUse
<1> QED
  BY <1>2, <1>4, <1>6 DEF LoopIsNoHandler

(* UseInv is inductive beside IdsInv. *)
LEMMA NextUse ==
    ASSUME IdsInv, UseInv, LoopIsNoHandler, [Next]_vars
    PROVE  UseInv' /\ LoopIsNoHandler'
<1>1. BaseInv /\ BaseInv' /\ IdsMatch'
  BY NextIds DEF IdsInv
<1>2. CASE Next
  <2>1. UNCHANGED scene
    BY <1>2 DEF Next
  <2>2. CASE TakeSnapshot
    BY <1>1, <2>1, <2>2, TakeSnapshotUse DEF UseInv
  <2>3. CASE \E w \in Worker : Begin(w)
    BY <1>1, <2>1, <2>3, BeginUse DEF UseInv
  <2>4. CASE \E w \in Goroutine : Work(w)
    <3>1. PICK w \in Goroutine : Work(w)
      BY <2>4
    <3>2. (BackendsOfTheirOwn /\ NoneStuck)'
      BY <1>1, <2>1, <3>1, WorkUse
    <3>3. Onward(w)
      BY <1>1, <2>1, <3>1, WorkEffect DEF Effect
    <3>4. LoopIsNoHandler'
      <4>1. Refresher \in Goroutine
        BY DEF Goroutine
      <4>2. NoLocals.op = "none"
        BY DEF NoLocals
      <4>3. me'[Refresher].op = me[Refresher].op \/ me'[Refresher] = NoLocals \/ me'[Refresher] = me[Refresher]
        BY <3>3, <4>1 DEF Onward, SameCall
      <4> QED
        BY <4>2, <4>3 DEF LoopIsNoHandler
    <3> QED
      BY <1>1, <3>2, <3>4 DEF UseInv
  <2> QED
    BY <1>2, <2>2, <2>3, <2>4 DEF Next
<1>3. CASE UNCHANGED vars
  <2>1. UNCHANGED <<account, back, pool, todo, me>>
    BY <1>3 DEF vars
  <2>2. BackendsOfTheirOwn' /\ NoneStuck' /\ LoopIsNoHandler'
    BY <2>1 DEF UseInv, BackendsOfTheirOwn, NoneStuck, Private, Doomed, Replaces, LoopIsNoHandler
  <2> QED
    BY <1>1, <2>2 DEF UseInv
<1> QED
  BY <1>2, <1>3

(* Spec implies always PooledBackendUsable, the property of Administration:    *)
(* whatever handlers, requests and failures are mixed, an account in the pool  *)
(* has a backend that can be started again, unless a rebuild is just about to  *)
(* replace it.                                                                 *)
THEOREM PooledBackendsAreUsable == Spec => []PooledBackendUsable
<1> DEFINE Inv == IdsInv /\ UseInv /\ LoopIsNoHandler
<1>1. Init => Inv
  <2>1. Init => me[Refresher].op = "none"
    <3>1. Init => me = [w \in Goroutine |-> NoLocals]
      BY DEF Init
    <3>2. Refresher \in Goroutine /\ NoLocals.op = "none"
      BY DEF Goroutine, NoLocals
    <3> QED
      BY <3>1, <3>2
  <2> QED
    BY <2>1, InitIds, InitUse DEF LoopIsNoHandler
<1>2. Inv /\ [Next]_vars => Inv'
  BY NextIds, NextUse
<1>3. Inv => PooledBackendUsable
  <2> SUFFICES ASSUME UseInv, LoopIsNoHandler, NEW i \in Id, pool[i] # 0,
                      back[account[pool[i]].backend].ready, back[account[pool[i]].backend].client = 0
               PROVE  \E w \in Worker : At(w, "swap") /\ me[w].account = pool[i]
    BY DEF PooledBackendUsable
  <2>1. PICK w \in Goroutine : Replaces(w, pool[i])
    BY DEF UseInv, NoneStuck, Doomed
  <2>2. /\ todo[w] # <<>> /\ todo[w][1] = "swap" /\ todo[w] \in Seq(Step)
        /\ todo[w] \in Seq(StepsOf(me[w].op)) /\ me[w].account = pool[i]
    BY <2>1 DEF Replaces, UseInv, BaseInv, GoroutinesOK, LocalOK
  <2>3. "swap" \in StepsOf(me[w].op)
    BY <2>2, StepsStay
  <2>4. w # Refresher
    BY <2>3 DEF StepsOf, LoopIsNoHandler, LaunchSteps
  <2>5. At(w, "swap")
    BY <2>2 DEF At
  <2> QED
    BY <2>2, <2>4, <2>5 DEF Goroutine
<1> QED
  BY <1>1, <1>2, <1>3, PTL DEF Spec

-----------------------------------------------------------------------------
(* Which account, and so which pooled account, can reach a client process. *)

(* A goroutine that is about to use the account among its locals. *)
Uses(v) == NeedsAccount(todo[v]) \/ (Launches(todo[v]) /\ me[v].onError = "abort")
(* One that has closed a backend and not replaced it yet. *)
Swaps(v) == todo[v] # <<>> /\ todo[v][1] = "swap"
Pooled(n) == pool[account[n].id] = n
Served(b) == \E i \in Id : pool[i] # 0 /\ account[pool[i]].backend = b

ProcessesServed == \A p \in running : p[1] \in 1..Len(back) /\ p[2] # 0 /\ back[p[1]].client = p[2] /\ Served(p[1])
StartsServed    == \A v \in Goroutine : Launches(todo[v]) => back[me[v].backend].client = me[v].client /\ Served(me[v].backend)
UsesPooled      == \A v \in Goroutine : /\ Uses(v) => Pooled(me[v].account)
                                        /\ todo[v] # <<>> => \A n \in me[v].queue : Pooled(n)
SwapsAlone      == \A v \in Goroutine : Swaps(v) => /\ \A u \in Goroutine \ {v} : todo[u] = <<>>
                                                    /\ back[account[me[v].account].backend].client = 0
Reached == ProcessesServed /\ StartsServed /\ UsesPooled /\ SwapsAlone

(* Until a backend was given up among others at work. *)
LeakInv == raced \/ Reached

(* The others do not move, but for a mark. *)
OthersStay(w) == \A v \in Goroutine \ {w} :
    /\ todo'[v] = todo[v] /\ me'[v].account = me[v].account /\ me'[v].queue = me[v].queue
    /\ me'[v].backend = me[v].backend /\ me'[v].client = me[v].client /\ me'[v].onError = me[v].onError

(* Accounts are only added, with a new backend, and none leaves the pool. *)
AccountsStay == /\ \A n \in 1..Len(account) : account'[n].id = account[n].id /\ account'[n].backend = account[n].backend
                /\ \A i \in Id : pool[i] # 0 => pool'[i] = pool[i]

(* What a goroutine that waits refers to. *)
LEMMA Referred ==
    ASSUME BaseInv
    PROVE  /\ \A v \in Goroutine : Uses(v) => me[v].account \in 1..Len(account)
           /\ \A v \in Goroutine : me[v].queue \subseteq 1..Len(account)
           /\ \A v \in Goroutine : Launches(todo[v]) => me[v].backend \in 1..Len(back) /\ me[v].client # 0
           /\ \A v \in Goroutine : Swaps(v) => me[v].account \in 1..Len(account)
           /\ \A n \in 1..Len(account) : account[n].id \in Id
           /\ \A b : Served(b) => b \in 1..Len(back)
<1>1. /\ \A v \in Goroutine : LocalOK(todo[v], me[v], Len(account), Len(back))
      /\ account \in Seq(AccountRecord) /\ Len(account) \in Nat
  BY Owned DEF BaseInv, GoroutinesOK, TypeOK
<1>2. ASSUME NEW v \in Goroutine
      PROVE  /\ Uses(v) => me[v].account \in 1..Len(account)
             /\ Swaps(v) => me[v].account \in 1..Len(account)
             /\ me[v].queue \subseteq 1..Len(account)
             /\ Launches(todo[v]) => me[v].backend \in 1..Len(back) /\ me[v].client # 0
  <2>1. LocalOK(todo[v], me[v], Len(account), Len(back))
    BY <1>1
  <2>2. Uses(v) => me[v].account # 0
    BY <2>1 DEF Uses, LocalOK
  <2>3. Swaps(v) => me[v].account # 0
    BY <2>1 DEF Swaps, LocalOK, NeedsAccount
  <2>4. me[v].account \in 0..Len(account)
    BY <2>1 DEF LocalOK
  <2>5. /\ Uses(v) => me[v].account \in 1..Len(account)
        /\ Swaps(v) => me[v].account \in 1..Len(account)
    BY <1>1, <2>2, <2>3, <2>4
  <2>6. /\ me[v].queue \subseteq 1..Len(account)
        /\ Launches(todo[v]) => me[v].backend \in 1..Len(back) /\ me[v].client # 0
    BY <2>1 DEF LocalOK
  <2> QED
    BY <2>5, <2>6
<1>3. \A n \in 1..Len(account) : account[n].id \in Id
  <2> TAKE n \in 1..Len(account)
  <2>1. account[n] \in AccountRecord
    BY <1>1, Elements
  <2> QED
    BY <2>1 DEF AccountRecord
<1>4. \A b : Served(b) => b \in 1..Len(back)
  BY Owned DEF Served
<1> QED
  BY <1>2, <1>3, <1>4

(* A step that closes no backend and replaces none. *)
LEMMA CalmReaches ==
    ASSUME BaseInv, BaseInv', Reached, NEW w \in Goroutine, OthersStay(w), AccountsStay,
           ~Swaps(w), ~Swaps(w)', \A v \in Goroutine \ {w} : ~Swaps(v),
           Len(back) <= Len(back'),
           \A b \in 1..Len(back) : back'[b].client = back[b].client \/ back[b].client = 0,
           running' \subseteq running \cup {p \in {<<me[w].backend, me[w].client>>} : Launches(todo[w])},
           Launches(todo'[w]) => /\ back'[me'[w].backend].client = me'[w].client
                                 /\ Served(me[w].backend)',
           Uses(w)' => Pooled(me[w].account)',
           todo'[w] # <<>> => \A n \in me'[w].queue : Pooled(n)'
    PROVE  Reached'
<1>1. /\ Len(account) \in Nat /\ Len(back) \in Nat /\ Len(back') \in Nat
      /\ \A i \in Id : pool[i] # 0 => pool[i] \in 1..Len(account)
  BY Owned
<1>2. ASSUME NEW b, Served(b)
      PROVE  Served(b)' /\ b \in 1..Len(back')
  <2>1. PICK i \in Id : pool[i] # 0 /\ account[pool[i]].backend = b
    BY <1>2 DEF Served
  <2>2. pool'[i] = pool[i] /\ account'[pool[i]].backend = b
    BY <1>1, <2>1 DEF AccountsStay
  <2>3. Served(b)'
    BY <2>1, <2>2 DEF Served
  <2> QED
    BY <1>1, <1>2, <2>3, Referred
<1>3. ASSUME NEW n \in 1..Len(account), Pooled(n)
      PROVE  Pooled(n)'
  <2>1. account[n].id \in Id /\ pool[account[n].id] = n /\ n # 0
    BY <1>3, Referred DEF Pooled
  <2> QED
    BY <2>1 DEF AccountsStay, Pooled
<1>4. ProcessesServed'
  <2> SUFFICES ASSUME NEW p \in running'
               PROVE  p[1] \in 1..Len(back') /\ p[2] # 0 /\ back'[p[1]].client = p[2] /\ Served(p[1])'
    BY DEF ProcessesServed
  <2>1. p[1] \in 1..Len(back) /\ p[2] # 0 /\ back[p[1]].client = p[2] /\ Served(p[1])
    <3>1. CASE p \in running
      BY <3>1 DEF Reached, ProcessesServed
    <3>2. CASE p = <<me[w].backend, me[w].client>> /\ Launches(todo[w])
      <4>1. p[1] = me[w].backend /\ p[2] = me[w].client
        BY <3>2
      <4> QED
        BY <3>2, <4>1, Referred DEF Reached, StartsServed
    <3> QED
      BY <3>1, <3>2
  <2> QED
    BY <1>2, <2>1
<1>5. StartsServed'
  <2> SUFFICES ASSUME NEW v \in Goroutine, Launches(todo'[v])
               PROVE  back'[me'[v].backend].client = me'[v].client /\ Served(me[v].backend)'
    BY DEF StartsServed
  <2>1. CASE v = w
    BY <1>2, <2>1
  <2>2. CASE v # w
    <3>1. Launches(todo[v]) /\ me'[v].backend = me[v].backend /\ me'[v].client = me[v].client
      BY <2>2 DEF OthersStay
    <3>2. me[v].backend \in 1..Len(back) /\ me[v].client # 0
      BY <3>1, Referred
    <3>3. back[me[v].backend].client = me[v].client /\ Served(me[v].backend)
      BY <3>1 DEF Reached, StartsServed
    <3> QED
      BY <1>2, <3>1, <3>2, <3>3
  <2> QED
    BY <2>1, <2>2
<1>6. UsesPooled'
  <2> SUFFICES ASSUME NEW v \in Goroutine
               PROVE  /\ Uses(v)' => Pooled(me[v].account)'
                      /\ todo'[v] # <<>> => \A n \in me'[v].queue : Pooled(n)'
    BY DEF UsesPooled
  <2>1. CASE v = w
    BY <2>1
  <2>2. CASE v # w
    <3>1. /\ todo'[v] = todo[v] /\ me'[v].account = me[v].account /\ me'[v].queue = me[v].queue
          /\ me'[v].onError = me[v].onError
      BY <2>2 DEF OthersStay
    <3>2. Uses(v)' => Uses(v)
      BY <3>1 DEF Uses
    <3>3. /\ Uses(v) => Pooled(me[v].account) /\ me[v].account \in 1..Len(account)
          /\ todo[v] # <<>> => \A n \in me[v].queue : Pooled(n)
          /\ me[v].queue \subseteq 1..Len(account)
      BY Referred DEF Reached, UsesPooled
    <3> QED
      BY <1>3, <3>1, <3>2, <3>3
  <2> QED
    BY <2>1, <2>2
<1>7. SwapsAlone'
  <2>1. \A v \in Goroutine : ~Swaps(v)'
    BY DEF Swaps, OthersStay
  <2> QED
    BY <2>1 DEF SwapsAlone
<1> QED
  BY <1>4, <1>5, <1>6, <1>7 DEF Reached

(* A backend is closed while nobody else is at work. *)
LEMMA CloseReaches ==
    ASSUME BaseInv, BaseInv', Reached, NEW w \in Goroutine,
           \A v \in Goroutine \ {w} : todo'[v] = <<>>,
           NEW a \in 1..Len(account), Len(back') = Len(back), UNCHANGED account,
           \A b \in 1..Len(back) : back'[b].client = IF b = account[a].backend THEN 0 ELSE back[b].client,
           running' = running \ {<<account[a].backend, back[account[a].backend].client>>},
           \A i \in Id : pool[i] # 0 /\ pool[i] # a => pool'[i] = pool[i],
           ~Launches(todo'[w]), todo'[w] # <<>> => me'[w].queue = {},
           Uses(w)' => Pooled(me[w].account)',
           Swaps(w)' => me'[w].account = a
    PROVE  Reached'
<1> DEFINE c == account[a].backend
<1>1. /\ Len(back) \in Nat /\ c \in 1..Len(back) /\ running \in SUBSET (Nat \X Nat)
  BY Owned DEF BaseInv, TypeOK
<1>2. ProcessesServed'
  <2> SUFFICES ASSUME NEW p \in running'
               PROVE  p[1] \in 1..Len(back') /\ p[2] # 0 /\ back'[p[1]].client = p[2] /\ Served(p[1])'
    BY DEF ProcessesServed
  <2>1. p \in running /\ p # <<c, back[c].client>> /\ p = <<p[1], p[2]>>
    BY <1>1
  <2>2. p[1] \in 1..Len(back) /\ p[2] # 0 /\ back[p[1]].client = p[2] /\ Served(p[1])
    BY <2>1 DEF Reached, ProcessesServed
  <2>3. p[1] # c
    BY <2>1, <2>2
  <2>4. PICK i \in Id : pool[i] # 0 /\ account[pool[i]].backend = p[1]
    BY <2>2 DEF Served
  <2>5. pool'[i] = pool[i]
    BY <2>3, <2>4
  <2>6. Served(p[1])'
    BY <2>4, <2>5 DEF Served
  <2> QED
    BY <2>2, <2>3, <2>6
<1>3. \A v \in Goroutine : ~Launches(todo'[v])
  BY DEF Launches
<1>4. \A v \in Goroutine \ {w} : ~Uses(v)' /\ ~Swaps(v)' /\ todo'[v] = <<>>
  BY <1>3 DEF Uses, NeedsAccount, Swaps
<1>5. StartsServed' /\ UsesPooled'
  BY <1>3, <1>4 DEF StartsServed, UsesPooled
<1>6. SwapsAlone'
  BY <1>1, <1>4 DEF SwapsAlone
<1> QED
  BY <1>2, <1>5, <1>6 DEF Reached

(* A backend that was closed is replaced, by a goroutine that is still alone. *)
LEMMA SwapReaches ==
    ASSUME BaseInv, BaseInv', Reached, NEW w \in Goroutine, Swaps(w), OthersStay(w),
           Len(account') = Len(account), UNCHANGED <<back, pool, running>>,
           \A n \in 1..Len(account) : n # me[w].account => account'[n].backend = account[n].backend,
           ~Launches(todo'[w]), todo'[w] # <<>> => me'[w].queue = {},
           ~Uses(w)', ~Swaps(w)'
    PROVE  Reached'
<1>1. /\ \A v \in Goroutine \ {w} : todo[v] = <<>>
      /\ back[account[me[w].account].backend].client = 0
  BY DEF Reached, SwapsAlone
<1>2. \A i \in Id : pool[i] # 0 => pool[i] \in 1..Len(account)
  BY Owned
<1>3. ProcessesServed'
  <2> SUFFICES ASSUME NEW p \in running'
               PROVE  p[1] \in 1..Len(back') /\ p[2] # 0 /\ back'[p[1]].client = p[2] /\ Served(p[1])'
    BY DEF ProcessesServed
  <2>1. p[1] \in 1..Len(back) /\ p[2] # 0 /\ back[p[1]].client = p[2] /\ Served(p[1])
    BY DEF Reached, ProcessesServed
  <2>2. PICK i \in Id : pool[i] # 0 /\ account[pool[i]].backend = p[1]
    BY <2>1 DEF Served
  <2>3. pool[i] # me[w].account
    BY <1>1, <2>1, <2>2
  <2>4. account'[pool[i]].backend = p[1]
    BY <1>2, <2>2, <2>3
  <2>5. Served(p[1])'
    BY <2>2, <2>4 DEF Served
  <2> QED
    BY <2>1, <2>5
<1>4. \A v \in Goroutine \ {w} : todo'[v] = <<>>
  BY <1>1 DEF OthersStay
<1>5. \A v \in Goroutine : ~Launches(todo'[v]) /\ ~Uses(v)' /\ ~Swaps(v)'
  BY <1>4 DEF Launches, Uses, NeedsAccount, Swaps
<1>6. StartsServed' /\ UsesPooled' /\ SwapsAlone'
  BY <1>4, <1>5 DEF StartsServed, UsesPooled, SwapsAlone
<1> QED
  BY <1>3, <1>6 DEF Reached

(* Which step lists need the account among the locals: a goroutine that needs  *)
(* it next needed it before, unless it has just looked it up.                  *)
LEMMA NeedsNext ==
    ASSUME BaseInv, NEW w \in Goroutine, NEW s, At(w, s)
    PROVE  /\ ~NeedsAccount(<<>>)
           /\ s \notin {"install", "build", "close", "unlist"} /\ NeedsAccount(Rest(w)) =>
                NeedsAccount(todo[w]) /\ s \in {"start", "abort"} \cup LaunchSteps
           /\ \A h \in LaunchSteps : NeedsAccount(<<h>> \o Rest(w)) => NeedsAccount(todo[w])
           /\ s \in RebuildSteps => /\ ~NeedsAccount(AfterRebuild(Rest(w)))
                                    /\ ~NeedsAccount(<<"dropState">> \o AfterRebuild(Rest(w)))
           /\ s # "close" => ~(Rest(w) # <<>> /\ Rest(w)[1] = "swap")
<1> DEFINE q == todo[w]
           r == Tail(q)
<1>1. q \in Seq(Step) /\ q # <<>> /\ q[1] = s /\ Shaped(q)
  BY AtStep DEF BaseInv, LocalOK
<1>2. /\ r \in Seq(Step) /\ Len(r) = Len(q) - 1 /\ \A i \in 1..Len(r) : r[i] = q[i + 1]
      /\ Len(q) \in Nat /\ Len(q) >= 1
  BY <1>1
<1>3. ASSUME Len(q) > 1
      PROVE  /\ q[2] = "sdk" => NeedsAccount(q) /\ s \in {"start", "abort"} \cup LaunchSteps
             /\ q[2] = "addStart" => s = "install"
             /\ q[2] # "abort" /\ q[2] \notin LaunchSteps
             /\ q[2] = "close" => s = "build"
             /\ q[2] = "swap" => s = "close"
  <2>1. 2 \in 1..Len(q) /\ 2 # 1 /\ 2 - 1 = 1
    BY <1>2, <1>3
  <2>2. /\ q[2] = "addStart" => Follows(q, 2, {"install"})
        /\ q[2] = "sdk" => Follows(q, 2, {"start", "abort"} \cup LaunchSteps)
        /\ q[2] \in LaunchSteps \cup {"abort"} => 2 = 1
        /\ q[2] = "close" => Follows(q, 2, {"build"})
        /\ q[2] = "swap" => Follows(q, 2, {"close"})
    BY <1>1, <2>1 DEF Shaped
  <2>3. q[2 - 1] = s
    BY <1>1, <2>1
  <2>4. /\ q[2] = "sdk" => s \in {"start", "abort"} \cup LaunchSteps
        /\ q[2] = "addStart" => s = "install"
        /\ q[2] = "close" => s = "build"
    <3>1. /\ Follows(q, 2, {"start", "abort"} \cup LaunchSteps) => s \in {"start", "abort"} \cup LaunchSteps
          /\ Follows(q, 2, {"install"}) => s = "install"
          /\ Follows(q, 2, {"build"}) => s = "build"
      BY ONLY <2>1, <2>3 DEF Follows
    <3> QED
      BY <2>2, <3>1
  <2>5. q[2] = "swap" => s = "close"
    <3>1. q[2] = "swap" => Follows(q, 2, {"close"})
      BY <1>1, <2>1 DEF Shaped
    <3> QED
      BY <2>1, <2>3, <3>1 DEF Follows
  <2>6. q[2] = "sdk" => NeedsAccount(q)
    BY <1>3 DEF NeedsAccount
  <2> QED
    BY <2>1, <2>2, <2>4, <2>5, <2>6
<1>4. ASSUME Len(q) > 2, q[3] = "sdk"
      PROVE  s = "unlist"
  <2>1. 3 \in 1..Len(q) /\ 3 - 1 = 2 /\ 2 \in 1..Len(q) /\ 2 - 1 = 1 /\ 2 < Len(q) /\ 2 + 1 = 3 /\ 3 # 1 /\ 2 # 1
    BY <1>2, <1>4
  <2>2. Follows(q, 3, {"start", "abort"} \cup LaunchSteps)
    BY <1>1, <1>4, <2>1 DEF Shaped
  <2>3. q[2] \in {"start", "abort"} \cup LaunchSteps
    BY <2>1, <2>2 DEF Follows
  <2>4. q[2] = "start"
    BY <1>1, <2>1, <2>3 DEF Shaped
  <2>5. Follows(q, 2, {"unlist"})
    BY <1>1, <1>4, <2>1, <2>4 DEF Shaped
  <2> QED
    BY <1>1, <2>1, <2>5 DEF Follows
<1>5. /\ r # <<>> => Len(q) > 1 /\ r[1] = q[2]
      /\ Len(r) > 1 => Len(q) > 2 /\ r[2] = q[3]
  <2>1. r # <<>> => Len(r) >= 1
    BY <1>2
  <2> QED
    BY <1>2, <2>1
<1> HIDE DEF r
<1>6. ASSUME s \notin {"install", "build", "close", "unlist"}, NeedsAccount(r)
      PROVE  NeedsAccount(q) /\ s \in {"start", "abort"} \cup LaunchSteps
  <2>1. CASE r # <<>> /\ r[1] \in {"sdk", "addStart", "abort", "close", "swap"}
    BY <1>3, <1>5, <1>6, <2>1
  <2>2. CASE Len(r) > 1 /\ r[2] = "sdk"
    BY <1>4, <1>5, <1>6, <2>2
  <2> QED
    BY <1>6, <2>1, <2>2 DEF NeedsAccount
<1>7. ASSUME NEW h \in LaunchSteps, NeedsAccount(<<h>> \o r)
      PROVE  NeedsAccount(q)
  <2>1. /\ (<<h>> \o r)[1] = h /\ Len(<<h>> \o r) = Len(r) + 1
        /\ Len(<<h>> \o r) > 1 => r # <<>> /\ (<<h>> \o r)[2] = r[1]
    BY <1>2
  <2>2. h \notin {"sdk", "addStart", "abort", "close", "swap"}
    BY DEF LaunchSteps
  <2>3. r # <<>> /\ r[1] = "sdk"
    BY <1>7, <2>1, <2>2 DEF NeedsAccount
  <2> QED
    BY <1>3, <1>5, <2>3
<1>8. ASSUME s \in RebuildSteps
      PROVE  ~NeedsAccount(AfterRebuild(r)) /\ ~NeedsAccount(<<"dropState">> \o AfterRebuild(r))
  <2> DEFINE z == AfterRebuild(r)
  <2>1. PICK d \in 2..Len(q) : q[d] = "restart" /\ Left(q, z, d)
    BY <1>1, <1>8, AfterRebuildLeft DEF r
  <2>2. z \in Seq(Step) /\ Len(z) \in Nat /\ Len(z) = Len(q) - d /\ \A i \in 1..Len(z) : z[i] = q[d + i]
    BY <2>1 DEF Left
  <2> HIDE DEF z
  <2>3. ASSUME z # <<>>
        PROVE  z[1] \notin {"sdk", "addStart", "abort", "close", "swap"}
    <3>1. z[1] = q[d + 1] /\ d + 1 \in d..Len(q) /\ d \in 1..Len(q) /\ d + 1 # 1 /\ d + 1 \in 1..Len(q) /\ (d + 1) - 1 = d
      BY <1>2, <2>2, <2>3
    <3>2. z[1] \notin Meddling
      BY <1>1, <2>1, <3>1 DEF Shaped
    <3>3. z[1] \notin LaunchSteps \cup {"abort"}
      BY <1>1, <3>1 DEF Shaped
    <3>4. z[1] = "sdk" => Follows(q, d + 1, {"start", "abort"} \cup LaunchSteps)
      BY <1>1, <3>1 DEF Shaped
    <3>5. z[1] = "addStart" => Follows(q, d + 1, {"install"})
      BY <1>1, <3>1 DEF Shaped
    <3> QED
      BY <2>1, <3>1, <3>2, <3>3, <3>4, <3>5 DEF Follows, Meddling, LaunchSteps
  <2>4. ASSUME Len(z) > 1, z[2] = "sdk"
        PROVE  FALSE
    <3>1. /\ z[2] = q[d + 2] /\ z[1] = q[d + 1] /\ d + 2 \in 1..Len(q) /\ d + 1 \in 1..Len(q) /\ (d + 2) - 1 = d + 1
          /\ (d + 1) - 1 = d /\ d + 1 < Len(q) /\ (d + 1) + 1 = d + 2 /\ d + 1 # 1 /\ d + 2 # 1
      BY <1>2, <2>2, <2>4
    <3>2. Follows(q, d + 2, {"start", "abort"} \cup LaunchSteps)
      BY <1>1, <2>4, <3>1 DEF Shaped
    <3>3. q[d + 1] \in {"start", "abort"} \cup LaunchSteps
      BY <3>1, <3>2 DEF Follows
    <3>4. q[d + 1] = "start"
      BY <1>1, <3>1, <3>3 DEF Shaped
    <3>5. Follows(q, d + 1, {"unlist"})
      BY <1>1, <2>4, <3>1, <3>4 DEF Shaped
    <3> QED
      BY <2>1, <3>1, <3>5 DEF Follows
  <2>5. ~NeedsAccount(z)
    BY <2>3, <2>4 DEF NeedsAccount
  <2>6. /\ (<<"dropState">> \o z)[1] = "dropState" /\ Len(<<"dropState">> \o z) = Len(z) + 1
        /\ Len(<<"dropState">> \o z) > 1 => z # <<>> /\ (<<"dropState">> \o z)[2] = z[1]
    BY <2>2
  <2>7. ~NeedsAccount(<<"dropState">> \o z)
    BY <2>3, <2>6 DEF NeedsAccount
  <2> QED
    BY <2>5, <2>7 DEF z
<1>9. ~NeedsAccount(<<>>)
  BY DEF NeedsAccount
<1>10. s # "close" => ~(r # <<>> /\ r[1] = "swap")
  BY <1>3, <1>5
<1> QED
  BY <1>6, <1>7, <1>8, <1>9, <1>10 DEF r, Rest

(* A handler refreshes nothing but its own account. *)
LEMMA HandlerAt ==
    ASSUME BaseInv, NEW w \in Goroutine, NEW s, At(w, s), s \notin {"visit", "sdk", "gather"} \cup LaunchSteps
    PROVE  me[w].op # "none" /\ me[w].queue = {}
<1>1. todo[w] # <<>> /\ todo[w][1] = s /\ todo[w] \in Seq(StepsOf(me[w].op)) /\ (me[w].op # "none" => me[w].queue = {})
  BY AtStep DEF BaseInv, LocalOK
<1>2. s \in StepsOf(me[w].op)
  BY <1>1, StepsStay
<1> QED
  BY <1>1, <1>2 DEF StepsOf

(* Nobody else is between closing and replacing while a goroutine is at work. *)
LEMMA NoneSwaps ==
    ASSUME Reached, NEW w \in Goroutine, NEW s, At(w, s)
    PROVE  \A v \in Goroutine \ {w} : ~Swaps(v)
BY DEF Reached, SwapsAlone, At

(* A step that leaves backends, processes and the pool alone. *)
LEMMA StillReaches ==
    ASSUME BaseInv, BaseInv', Reached, NEW w \in Goroutine, NEW s, At(w, s), s # "swap",
           NEW q, NEW l, Proceed(w, q, l), Quiet(q), UNCHANGED <<back, pool, running>>, SameBackends,
           \A n \in 1..Len(account) : account'[n].id = account[n].id,
           NeedsAccount(q) => l.account \in 1..Len(account) /\ Pooled(l.account),
           l.queue \subseteq me[w].queue
    PROVE  Reached'
<1>1. OthersWait(w) /\ todo'[w] = q /\ (q # <<>> => me'[w] = l)
  BY Moves
<1>2. OthersStay(w) /\ AccountsStay
  BY <1>1 DEF OthersWait, OthersStay, AccountsStay, SameBackends
<1>3. todo[w] # <<>> /\ todo[w][1] = s
  BY AtStep DEF BaseInv
<1>4. ~Swaps(w) /\ ~Swaps(w)' /\ ~Launches(todo'[w])
  BY <1>1, <1>3 DEF Swaps, Quiet, Rebuilds
<1>5. \A v \in Goroutine \ {w} : ~Swaps(v)
  BY NoneSwaps
<1>6. ASSUME NEW n \in 1..Len(account), Pooled(n)
      PROVE  Pooled(n)'
  BY <1>6 DEF Pooled
<1>7. Uses(w)' => Pooled(me[w].account)'
  <2> SUFFICES ASSUME Uses(w)'
               PROVE  Pooled(me[w].account)'
    OBVIOUS
  <2>1. NeedsAccount(q) /\ q # <<>>
    <3>1. ~NeedsAccount(<<>>)
      BY NeedsNext
    <3> QED
      BY <1>1, <1>4, <3>1 DEF Uses
  <2>2. l.account \in 1..Len(account) /\ Pooled(l.account)
    BY <2>1
  <2> DEFINE n == l.account
  <2> HIDE DEF n
  <2>3. n \in 1..Len(account) /\ pool'[account'[n].id] = n
    BY <2>2 DEF n, Pooled
  <2>4. me'[w].account = n
    BY <1>1, <2>1 DEF n
  <2> QED
    BY <2>3, <2>4 DEF Pooled
<1>8. todo'[w] # <<>> => \A n \in me'[w].queue : Pooled(n)'
  BY <1>1, <1>3, <1>6, Referred DEF Reached, UsesPooled
<1>9. Len(back) <= Len(back') /\ \A b \in 1..Len(back) : back'[b].client = back[b].client \/ back[b].client = 0
  BY Unchanging
<1> QED
  BY <1>2, <1>4, <1>5, <1>7, <1>8, <1>9, CalmReaches

(* CopilotBackend.Start makes its client for a backend that is served. *)
LEMMA BeginStartReaches ==
    ASSUME BaseInv, BaseInv', Reached, NEW w \in Goroutine, NEW s \in {"start", "addStart", "restart", "sdk"}, At(w, s),
           NEW n \in 1..Len(account), NEW e, BeginStart(w, account[n].backend, e), Served(account[n].backend),
           e = "abort" => s = "addStart", UNCHANGED <<account, pool, running>>
    PROVE  Reached'
<1> DEFINE b == account[n].backend
<1>1. /\ b \in 1..Len(back) /\ Len(back) \in Nat /\ back \in Seq(BackendRecord) /\ me[w] \in Locals
      /\ todo[w] \in Seq(Step) /\ todo[w] # <<>> /\ todo[w][1] = s
  BY Owned, AtStep DEF BaseInv, TypeOK
<1>2. Quiet(Rest(w))
  BY QuietNext DEF LaunchSteps
<1>3. SameBackends /\ (\A i \in 1..Len(account) : account'[i].id = account[i].id) /\ AccountsStay
  BY Unchanging DEF SameBackends, AccountsStay
<1>4. NeedsAccount(todo[w]) => me[w].account \in 1..Len(account) /\ Pooled(me[w].account)
  BY Referred DEF Reached, UsesPooled, Uses
<1>5. CASE back[b].ready
  <2> DEFINE l == [me[w] EXCEPT !.backend = b]
  <2>1. Proceed(w, Rest(w), l) /\ UNCHANGED back
    BY <1>5 DEF BeginStart
  <2>2. l.account = me[w].account /\ l.queue = me[w].queue
    BY <1>1 DEF Locals
  <2> HIDE DEF l
  <2>3. NeedsAccount(Rest(w)) => NeedsAccount(todo[w])
    BY NeedsNext
  <2> QED
    BY <1>2, <1>3, <1>4, <2>1, <2>2, <2>3, StillReaches
<1>6. CASE ~back[b].ready
  <2> DEFINE made == back[b].client = 0
             k == IF made THEN back[b].made + 1 ELSE back[b].client
             j == IF made THEN back[b].made + 1 ELSE back[b].made
             l == [[me[w] EXCEPT !.backend = b] EXCEPT !.client = k, !.onError = e]
             q == <<"launch">> \o Rest(w)
  <2>1. back[b] \in BackendRecord
    BY <1>1, Elements
  <2>2. k \in Nat /\ j \in Nat /\ (back[b].client # 0 => k = back[b].client)
    BY <2>1 DEF BackendRecord
  <2>3. ClientMade(back', back, b, k, j) /\ Proceed(w, q, l)
    BY <1>6 DEF BeginStart, ClientMade
  <2> HIDE DEF made, k, j
  <2>4. l.backend = b /\ l.client = k /\ l.onError = e /\ l.account = me[w].account /\ l.queue = me[w].queue
    BY <1>1 DEF Locals
  <2> HIDE DEF l
  <2>5. /\ q # <<>> /\ q[1] = "launch"
        /\ NeedsAccount(q) => NeedsAccount(todo[w])
    <3>1. Rest(w) \in Seq(Step)
      BY <1>1 DEF Rest
    <3>2. "launch" \in LaunchSteps
      BY DEF LaunchSteps
    <3> QED
      BY <3>1, <3>2, NeedsNext
  <2> HIDE DEF q
  <2>6. OthersWait(w) /\ todo'[w] = q /\ me'[w] = l
    BY <2>3, <2>5, Moves
  <2>7. OthersStay(w)
    BY <2>6 DEF OthersWait, OthersStay
  <2>8. /\ Len(back') = Len(back)
        /\ \A i \in 1..Len(back) : back'[i].client = IF i = b THEN k ELSE back[i].client
    <3>1. back \in Seq(BackendRecord) /\ b \in 1..Len(back) /\ k \in Nat /\ j \in Nat /\ ClientMade(back', back, b, k, j)
      BY <1>1, <2>2, <2>3
    <3> HIDE DEF b
    <3>2. /\ back' \in Seq(BackendRecord) /\ Len(back') = Len(back)
          /\ \A i \in 1..Len(back) : /\ back'[i].token = back[i].token /\ back'[i].ready = back[i].ready
                                      /\ back'[i].client = IF i = b THEN k ELSE back[i].client
      BY ONLY <3>1, BackendMade
    <3> QED
      BY <3>2
  <2>9. ~Swaps(w) /\ ~Swaps(w)'
    BY <1>1, <2>5, <2>6 DEF Swaps
  <2>10. \A v \in Goroutine \ {w} : ~Swaps(v)
    BY NoneSwaps
  <2>11. \A i \in 1..Len(back) : back'[i].client = back[i].client \/ back[i].client = 0
    BY <2>2, <2>8
  <2>12. back'[me'[w].backend].client = me'[w].client /\ Served(me[w].backend)'
    <3>1. Served(b)'
      BY DEF Served
    <3>2. me'[w].backend = b
      BY <2>4, <2>6
    <3>3. Served(me[w].backend)'
      BY <3>1, <3>2 DEF Served
    <3> QED
      BY <1>1, <2>4, <2>6, <2>8, <3>3
  <2>13. Uses(w)' => Pooled(me[w].account)'
    <3>1. Uses(w)' => NeedsAccount(todo[w])
      <4>1. e = "abort" => NeedsAccount(todo[w])
        BY <1>1 DEF NeedsAccount
      <4> QED
        BY <2>4, <2>5, <2>6, <4>1 DEF Uses
    <3>2. me'[w].account = me[w].account
      BY <2>4, <2>6
    <3> QED
      BY <1>4, <3>1, <3>2 DEF Pooled
  <2>14. \A i \in me'[w].queue : Pooled(i)'
    BY <1>1, <2>4, <2>6 DEF Reached, UsesPooled, Pooled
  <2>15. Len(back) <= Len(back') /\ running' \subseteq running
    BY <1>1, <2>8, NoLess
  <2> QED
    BY <1>3, <2>7, <2>9, <2>10, <2>11, <2>12, <2>13, <2>14, <2>15, CalmReaches
<1> QED
  BY <1>5, <1>6

(* client.Start runs the process of a backend that is served, or fails. *)
LEMMA LaunchReaches ==
    ASSUME BaseInv, BaseInv', Reached, NEW w \in Goroutine, Launch(w)
    PROVE  Reached'
<1>1. /\ At(w, "launch") /\ UNCHANGED <<account, pool, back>>
      /\ running' \subseteq running \cup {<<me[w].backend, me[w].client>>}
  BY DEF Launch, accounts
<1>2. PICK h \in {"markReady", "markFailed"} : Proceed(w, <<h>> \o Rest(w), me[w])
  BY DEF Launch
<1> DEFINE q == <<h>> \o Rest(w)
<1>3. todo[w] \in Seq(Step) /\ todo[w] # <<>> /\ todo[w][1] = "launch" /\ Launches(todo[w])
  BY <1>1, AtStep DEF BaseInv, Launches, LaunchSteps
<1>4. q # <<>> /\ q[1] = h /\ (NeedsAccount(q) => NeedsAccount(todo[w]))
  <2>1. Rest(w) \in Seq(Step)
    BY <1>3 DEF Rest
  <2>2. h \in LaunchSteps
    BY DEF LaunchSteps
  <2> QED
    BY <1>1, <2>1, <2>2, NeedsNext
<1>5. Proceed(w, q, me[w])
  BY <1>2
<1> HIDE DEF q
<1>6. OthersWait(w) /\ todo'[w] = q /\ me'[w] = me[w]
  BY <1>4, <1>5, Moves
<1>7. OthersStay(w) /\ AccountsStay
  BY <1>1, <1>6 DEF OthersWait, OthersStay, AccountsStay
<1>8. ~Swaps(w) /\ ~Swaps(w)' /\ \A v \in Goroutine \ {w} : ~Swaps(v)
  <2>1. \A v \in Goroutine \ {w} : ~Swaps(v)
    BY <1>1, NoneSwaps
  <2> QED
    BY <1>3, <1>4, <1>6, <2>1 DEF Swaps
<1>9. Len(back) <= Len(back') /\ \A b \in 1..Len(back) : back'[b].client = back[b].client \/ back[b].client = 0
  BY <1>1, Unchanging
<1>10. back'[me'[w].backend].client = me'[w].client /\ Served(me[w].backend)'
  BY <1>1, <1>3, <1>6 DEF Reached, StartsServed, Served
<1>11. Uses(w)' => Pooled(me[w].account)'
  <2>1. Uses(w)' => Uses(w)
    BY <1>3, <1>4, <1>6 DEF Uses
  <2> QED
    BY <1>1, <1>6, <2>1 DEF Reached, UsesPooled, Pooled
<1>12. \A i \in me'[w].queue : Pooled(i)'
  BY <1>1, <1>3, <1>6 DEF Reached, UsesPooled, Pooled
<1>13. running' \subseteq running \cup {p \in {<<me[w].backend, me[w].client>>} : Launches(todo[w])}
  BY <1>1, <1>3
<1> QED
  BY <1>7, <1>8, <1>9, <1>10, <1>11, <1>12, <1>13, CalmReaches

(* Start's second half: the client stays, the backend is ready or not. *)
LEMMA MarkReaches ==
    ASSUME BaseInv, BaseInv', Reached, NEW w \in Goroutine, NEW s \in LaunchSteps, At(w, s),
           NEW q, Proceed(w, q, Forgotten(me[w])), q \in {<<>>, Rest(w)} \/ (q = <<"abort">> /\ me[w].onError = "abort"),
           UNCHANGED <<account, pool, running>>, Len(back') = Len(back),
           \A b \in 1..Len(back) : back'[b].client = back[b].client
    PROVE  Reached'
<1>1. /\ todo[w] \in Seq(Step) /\ todo[w] # <<>> /\ todo[w][1] = s /\ me[w] \in Locals /\ Launches(todo[w])
      /\ Len(back) \in Nat
  BY AtStep DEF BaseInv, Launches
<1> DEFINE l == Forgotten(me[w])
<1>2. l.account = me[w].account /\ l.queue = me[w].queue
  BY <1>1 DEF Forgotten, Locals
<1>3. Proceed(w, q, l)
  OBVIOUS
<1> HIDE DEF l
<1>4. OthersWait(w) /\ todo'[w] = q /\ (q # <<>> => me'[w] = l)
  BY <1>3, Moves
<1>5. OthersStay(w) /\ AccountsStay
  BY <1>4 DEF OthersWait, OthersStay, AccountsStay
<1>6. /\ Quiet(q) /\ ~(q # <<>> /\ q[1] = "swap")
      /\ NeedsAccount(q) => Uses(w)
  <2>1. s \notin {"build", "close", "swap", "install", "unlist"}
    BY DEF LaunchSteps
  <2>2. Quiet(<<>>) /\ Quiet(<<"abort">>) /\ Quiet(Rest(w))
    BY <2>1, QuietNext
  <2>3. ~NeedsAccount(<<>>) /\ (NeedsAccount(Rest(w)) => NeedsAccount(todo[w]))
    BY <2>1, NeedsNext
  <2>4. q \notin {<<>>, Rest(w)} => Uses(w)
    BY <1>1 DEF Uses
  <2> QED
    BY <2>2, <2>3, <2>4 DEF Uses, Quiet, Rebuilds
<1>7. ~Swaps(w) /\ ~Swaps(w)' /\ ~Launches(todo'[w]) /\ \A v \in Goroutine \ {w} : ~Swaps(v)
  <2>1. \A v \in Goroutine \ {w} : ~Swaps(v)
    BY NoneSwaps
  <2>2. s # "swap"
    BY DEF LaunchSteps
  <2> QED
    BY <1>1, <1>4, <1>6, <2>1, <2>2 DEF Swaps, Quiet
<1>8. Uses(w)' => Pooled(me[w].account)'
  <2>1. Uses(w)' => NeedsAccount(q) /\ q # <<>>
    <3>1. ~NeedsAccount(<<>>)
      BY NeedsNext
    <3> QED
      BY <1>4, <1>7, <3>1 DEF Uses
  <2> QED
    BY <1>2, <1>4, <1>6, <2>1 DEF Reached, UsesPooled, Pooled
<1>9. todo'[w] # <<>> => \A n \in me'[w].queue : Pooled(n)'
  BY <1>1, <1>2, <1>4 DEF Reached, UsesPooled, Pooled
<1>10. Len(back) <= Len(back') /\ running' \subseteq running
  BY <1>1, NoLess
<1> QED
  BY <1>5, <1>7, <1>8, <1>9, <1>10, CalmReaches

(* A backend is closed: another goroutine at work would have been remembered. *)
LEMMA ClosingReaches ==
    ASSUME BaseInv, BaseInv', Reached, NEW w \in Goroutine, NEW s \in {"close", "abort", "remove"}, At(w, s),
           NEW a \in 1..Len(account), Close(w, account[a].backend), UNCHANGED account, ~raced',
           \/ s = "close" /\ a = me[w].account /\ UNCHANGED pool
           \/ s # "close" /\ pool[me[w].id] = a /\ pool' = [pool EXCEPT ![me[w].id] = 0],
           NEW q, Proceed(w, q, me[w]), q = Rest(w) \/ q = <<>>, s = "abort" => q = <<>>
    PROVE  Reached'
<1> DEFINE c == account[a].backend
<1>1. /\ back \in Seq(BackendRecord) /\ running \in SUBSET (Nat \X Nat) /\ raced \in BOOLEAN /\ pool \in [Id -> 0..Len(account)]
      /\ todo[w] \in Seq(Step) /\ todo[w] # <<>> /\ todo[w][1] = s /\ c \in Nat /\ Shaped(todo[w])
  <2>1. c \in 1..Len(back) /\ Len(back) \in Nat
    BY Owned
  <2>2. todo[w] \in Seq(Step) /\ todo[w] # <<>> /\ todo[w][1] = s /\ Shaped(todo[w])
    BY AtStep DEF BaseInv, LocalOK
  <2> QED
    BY <2>1, <2>2 DEF BaseInv, TypeOK
<1>2. Close(w, c)
  OBVIOUS
<1> HIDE DEF c
<1>3. /\ Len(back') = Len(back)
      /\ \A i \in 1..Len(back) : back'[i].client = IF i = c THEN 0 ELSE back[i].client
      /\ running' = running \ {<<c, back[c].client>>} /\ raced' = (raced \/ Others(w))
  BY <1>1, <1>2, Closed
<1>4. OthersWait(w) /\ todo'[w] = q /\ (q # <<>> => me'[w] = me[w])
  BY Moves
<1>5. \A v \in Goroutine \ {w} : todo'[v] = <<>>
  BY <1>1, <1>3, <1>4 DEF Others, Idle, OthersWait
<1>6. me[w].op # "none" /\ me[w].queue = {}
  BY HandlerAt DEF LaunchSteps
<1>7. ASSUME NEW i \in Id, pool[i] # 0, pool[i] # a
      PROVE  pool'[i] = pool[i]
  <2>1. CASE UNCHANGED pool
    BY <2>1
  <2>2. CASE s # "close" /\ pool[me[w].id] = a /\ pool' = [pool EXCEPT ![me[w].id] = 0]
    <3>1. i = me[w].id \/ pool'[i] = pool[i]
      BY <1>1, <2>2
    <3> QED
      BY <1>7, <2>2, <3>1
  <2> QED
    BY <2>1, <2>2
<1>8. ~Launches(q) /\ (s # "close" => ~Swaps(w)') /\ ~Launches(<<>>)
  <2>1. ~Launches(Rest(w)) /\ ~Launches(<<>>)
    BY QuietNext DEF Launches
  <2>2. s # "close" => ~(Rest(w) # <<>> /\ Rest(w)[1] = "swap")
    BY NeedsNext
  <2> QED
    BY <1>4, <2>1, <2>2 DEF Swaps
<1>9. Uses(w)' => s = "close" /\ q = Rest(w) /\ q # <<>>
  <2>1. ~NeedsAccount(<<>>)
    BY NeedsNext
  <2>2. s = "remove" => ~NeedsAccount(Rest(w))
    BY NeedsNext DEF LaunchSteps
  <2> QED
    BY <1>4, <1>8, <2>1, <2>2 DEF Uses
<1>10. Uses(w)' => Pooled(me[w].account)'
  <2>1. s = "close" => Pooled(me[w].account)
    BY <1>1 DEF Reached, UsesPooled, Uses, NeedsAccount
  <2>2. s = "close" => me[w].account = a /\ UNCHANGED pool
    OBVIOUS
  <2> QED
    BY <1>4, <1>9, <2>1, <2>2 DEF Pooled
<1>11. Swaps(w)' => me'[w].account = a
  BY <1>4, <1>8 DEF Swaps
<1> QED
  BY <1>3, <1>4, <1>5, <1>6, <1>7, <1>8, <1>10, <1>11, CloseReaches DEF c

(* RebuildBackend's new backend, which no account has. *)
LEMMA BuildReaches ==
    ASSUME BaseInv, IdsMatch, BaseInv', Reached, NEW w \in Goroutine, BuildBackend(w)
    PROVE  Reached'
<1> DEFINE a == pool[me[w].id]
           l == [me[w] EXCEPT !.account = a, !.backend = Len(back) + 1]
           x == Backend(ResolveToken(me[w].id, account[a].token))
<1>1. At(w, "build") /\ UNCHANGED <<account, pool, running>>
  BY DEF BuildBackend, accounts
<1>2. \/ UNCHANGED back /\ \E q \in {<<>>, AfterRebuild(Rest(w))} : Proceed(w, q, me[w])
      \/ a # 0 /\ back' = Append(back, x) /\ Proceed(w, Rest(w), l)
  BY DEF BuildBackend, Return
<1>3. /\ back \in Seq(BackendRecord) /\ Len(back) \in Nat /\ me[w] \in Locals /\ me[w].id \in Id
      /\ todo[w] # <<>> /\ todo[w][1] = "build"
  BY <1>1, Owned, AtStep DEF BaseInv, TypeOK
<1>4. "build" \in RebuildSteps
  BY DEF RebuildSteps
<1>5. SameBackends /\ \A n \in 1..Len(account) : account'[n].id = account[n].id
  BY <1>1, Unchanging
<1>6. CASE UNCHANGED back /\ \E q \in {<<>>, AfterRebuild(Rest(w))} : Proceed(w, q, me[w])
  <2>1. \A q \in {<<>>, AfterRebuild(Rest(w))} : Quiet(q) /\ ~NeedsAccount(q)
    BY <1>1, <1>4, QuietNext, NeedsNext
  <2> QED
    BY <1>1, <1>5, <1>6, <2>1, StillReaches
<1>7. CASE a # 0 /\ back' = Append(back, x) /\ Proceed(w, Rest(w), l)
  <2>1. l.account = a /\ l.queue = me[w].queue
    BY <1>3 DEF Locals
  <2> HIDE DEF l, x
  <2>2. Len(back') = Len(back) + 1 /\ \A b \in 1..Len(back) : back'[b] = back[b]
    BY <1>3, <1>7
  <2>3. OthersWait(w) /\ todo'[w] = Rest(w) /\ (Rest(w) # <<>> => me'[w] = l)
    BY <1>7, Moves
  <2>4. OthersStay(w) /\ AccountsStay
    BY <1>1, <2>3 DEF OthersWait, OthersStay, AccountsStay
  <2>5. ~Launches(todo'[w]) /\ ~Swaps(w) /\ ~Swaps(w)' /\ \A v \in Goroutine \ {w} : ~Swaps(v)
    <3>1. ~Launches(Rest(w)) /\ ~(Rest(w) # <<>> /\ Rest(w)[1] = "swap")
      BY <1>1, QuietNext, NeedsNext
    <3>2. \A v \in Goroutine \ {w} : ~Swaps(v)
      BY <1>1, NoneSwaps
    <3> QED
      BY <1>3, <2>3, <3>1, <3>2 DEF Swaps
  <2>6. Uses(w)' => Pooled(me[w].account)'
    <3>1. Uses(w)' => Rest(w) # <<>>
      <4>1. ~NeedsAccount(<<>>)
        BY <1>1, NeedsNext
      <4> QED
        BY <2>3, <2>5, <4>1 DEF Uses
    <3>2. pool[account[a].id] = a
      BY <1>3, <1>7 DEF IdsMatch
    <3> HIDE DEF a
    <3> QED
      BY <1>1, <2>1, <2>3, <3>1, <3>2 DEF Pooled
  <2>7. todo'[w] # <<>> => \A n \in me'[w].queue : Pooled(n)'
    BY <1>1, <1>3, <2>1, <2>3 DEF Reached, UsesPooled, Pooled
  <2>8. /\ Len(back) <= Len(back') /\ running' \subseteq running
        /\ \A b \in 1..Len(back) : back'[b].client = back[b].client \/ back[b].client = 0
    BY <1>1, <1>3, <2>2
  <2> QED
    BY <2>4, <2>5, <2>6, <2>7, <2>8, CalmReaches
<1> QED
  BY <1>2, <1>6, <1>7

(* AddAccount puts the new account where none was, or the step is remembered. *)
LEMMA InstallReaches ==
    ASSUME BaseInv, BaseInv', Reached, NEW w \in Goroutine, Install(w), ~raced'
    PROVE  Reached'
<1>0. PICK on \in BOOLEAN : Installs(w, on)
  BY InstallIs
<1> DEFINE id == me[w].id
           x == Backend(ResolveToken(id, NewToken(w)))
           y == [id |-> id, enabled |-> on, backend |-> Len(back) + 1, token |-> NewToken(w)]
           l == [me[w] EXCEPT !.account = Len(account) + 1]
<1>1. /\ At(w, "install") /\ Proceed(w, Rest(w), l)
      /\ back' = Append(back, x) /\ account' = Append(account, y)
      /\ pool' = [pool EXCEPT ![id] = Len(account) + 1]
      /\ pool[id] = 0 /\ UNCHANGED running
  BY <1>0 DEF Installs
<1>2. /\ back \in Seq(BackendRecord) /\ Len(back) \in Nat /\ account \in Seq(AccountRecord) /\ Len(account) \in Nat
      /\ pool \in [Id -> 0..Len(account)] /\ me[w] \in Locals /\ id \in Id
      /\ todo[w] # <<>> /\ todo[w][1] = "install"
  BY <1>1, Owned, AtStep DEF BaseInv, TypeOK
<1>3. y.id = id /\ l.account = Len(account) + 1 /\ l.queue = me[w].queue
  BY <1>2 DEF Locals
<1> HIDE DEF l, x, y
<1>4. /\ Len(back') = Len(back) + 1 /\ \A b \in 1..Len(back) : back'[b] = back[b]
      /\ \A n \in 1..Len(account) : account'[n] = account[n]
      /\ account'[Len(account) + 1] = y
  BY <1>1, <1>2
<1>5. OthersWait(w) /\ todo'[w] = Rest(w) /\ (Rest(w) # <<>> => me'[w] = l)
  BY <1>1, Moves
<1>6. pool'[id] = Len(account) + 1 /\ \A i \in Id : pool[i] # 0 => pool'[i] = pool[i]
  BY <1>1, <1>2
<1>7. OthersStay(w) /\ AccountsStay
  BY <1>4, <1>5, <1>6 DEF OthersWait, OthersStay, AccountsStay
<1>8. ~Launches(todo'[w]) /\ ~Swaps(w) /\ ~Swaps(w)' /\ \A v \in Goroutine \ {w} : ~Swaps(v)
  <2>1. ~Launches(Rest(w)) /\ ~(Rest(w) # <<>> /\ Rest(w)[1] = "swap")
    BY <1>1, QuietNext, NeedsNext
  <2>2. \A v \in Goroutine \ {w} : ~Swaps(v)
    BY <1>1, NoneSwaps
  <2> QED
    BY <1>2, <1>5, <2>1, <2>2 DEF Swaps
<1>9. Uses(w)' => Pooled(me[w].account)'
  <2>1. Uses(w)' => Rest(w) # <<>>
    <3>1. ~NeedsAccount(<<>>)
      BY <1>1, NeedsNext
    <3> QED
      BY <1>5, <1>8, <3>1 DEF Uses
  <2> QED
    BY <1>3, <1>4, <1>5, <1>6, <2>1 DEF Pooled
<1>10. todo'[w] # <<>> => \A n \in me'[w].queue : Pooled(n)'
  <2>1. me[w].queue = {}
    BY <1>1, HandlerAt DEF LaunchSteps
  <2> QED
    BY <1>3, <1>5, <2>1
<1>11. /\ Len(back) <= Len(back') /\ running' \subseteq running
       /\ \A b \in 1..Len(back) : back'[b].client = back[b].client \/ back[b].client = 0
  BY <1>1, <1>2, <1>4
<1> QED
  BY <1>7, <1>8, <1>9, <1>10, <1>11, CalmReaches

(* Every step of a handler or of the refresh loop leaves every process with an *)
(* account of the pool, or is remembered.                                      *)
LEMMA WorkReaches ==
    ASSUME BaseInv, IdsMatch, BaseInv', Reached, NEW w \in Goroutine, Work(w), UNCHANGED scene, ~raced'
    PROVE  Reached'
<1>1. /\ account \in Seq(AccountRecord) /\ Len(account) \in Nat /\ pool \in [Id -> 0..Len(account)]
      /\ back \in Seq(BackendRecord) /\ Len(back) \in Nat /\ me[w] \in Locals /\ me[w].id \in Id
      /\ running \in SUBSET (Nat \X Nat)
  <2>1. me[w] \in Locals
    BY DEF BaseInv, TypeOK
  <2>2. me[w].id \in Id
    BY <2>1 DEF Locals
  <2> QED
    BY <2>1, <2>2, Elements DEF BaseInv, TypeOK
<1>2. \A i \in Id : pool[i] # 0 => pool[i] \in 1..Len(account) /\ account[pool[i]].id = i
  BY Owned DEF IdsMatch
<1>3. \A n \in 1..Len(account) : account'[n].id = account[n].id
  BY WorkEffect DEF Effect, AccountsEffect
<1>4. UNCHANGED account => SameBackends
  BY Unchanging
(* What a goroutine is about to use is in the pool, and so is its backend. *)
<1>5. NeedsAccount(todo[w]) =>
        me[w].account \in 1..Len(account) /\ Pooled(me[w].account) /\ Served(account[me[w].account].backend)
  <2> SUFFICES ASSUME NeedsAccount(todo[w])
               PROVE  me[w].account \in 1..Len(account) /\ Pooled(me[w].account) /\ Served(account[me[w].account].backend)
    OBVIOUS
  <2> DEFINE n == me[w].account
  <2>1. n \in 1..Len(account) /\ Pooled(n) /\ account[n].id \in Id
    BY Referred DEF Uses, Reached, UsesPooled
  <2> HIDE DEF n
  <2>2. pool[account[n].id] = n /\ n # 0
    BY <2>1 DEF Pooled
  <2>3. Served(account[n].backend)
    BY <2>1, <2>2 DEF Served
  <2> QED
    BY <2>1, <2>3 DEF n
<1> DEFINE Still(s) == At(w, s) /\ UNCHANGED <<back, pool, running>>
           Plain == {"enable", "disable", "check", "issue", "look", "exchange", "authorize", "store", "memory",
                     "dropState", "list", "gather"}
(* A step that changes no backend and looks nothing up that it then uses. *)
<1>6. ASSUME NEW s \in Plain \cup {"clear"}, NEW q, NEW l, Still(s), Proceed(w, q, l),
             q = Rest(w) \/ (Quiet(q) /\ ~NeedsAccount(q)), SameBackends, l.queue \subseteq me[w].queue
      PROVE  Reached'
  <2>1. s \notin {"install", "build", "close", "unlist", "start", "abort"} \cup LaunchSteps
    BY DEF LaunchSteps
  <2>2. At(w, s)
    BY <1>6
  <2>3. ~NeedsAccount(Rest(w)) /\ Quiet(Rest(w))
    BY <2>1, <2>2, NeedsNext, QuietNext
  <2>4. Quiet(q) /\ ~NeedsAccount(q)
    BY <1>6, <2>3
  <2>5. s # "swap" /\ At(w, s) /\ UNCHANGED <<back, pool, running>>
    BY <1>6
  <2> HIDE DEF Still, Plain
  <2> QED
    BY <1>3, <1>6, <2>4, <2>5, StillReaches
<1>7. ASSUME NEW s \in {"start", "addStart", "restart"}, NEW e, StartAccount(w, s, e), e = "abort" => s = "addStart"
      PROVE  Reached'
  <2>1. At(w, s) /\ UNCHANGED <<account, pool, running>>
    BY <1>7 DEF StartAccount, accounts
  <2> DEFINE skips == pool[me[w].id] = 0 \/ (s = "addStart" /\ ~account[me[w].account].enabled)
  <2>2. CASE skips
    <3>1. UNCHANGED back /\ Proceed(w, Rest(w), me[w])
      BY <1>7, <2>2 DEF StartAccount, Continue
    <3>2. NeedsAccount(Rest(w)) => NeedsAccount(todo[w])
      BY <2>1, NeedsNext
    <3>3. Quiet(Rest(w)) /\ s # "swap"
      BY <2>1, QuietNext
    <3> QED
      BY <1>3, <1>4, <1>5, <2>1, <3>1, <3>2, <3>3, StillReaches
  <2>3. CASE ~skips
    <3> DEFINE n == pool[me[w].id]
    <3>1. BeginStart(w, account[n].backend, e) /\ n \in 1..Len(account)
      BY <1>1, <1>2, <1>7, <2>3 DEF StartAccount
    <3>2. Served(account[n].backend)
      BY <1>1, <2>3 DEF Served
    <3> HIDE DEF n
    <3> QED
      BY <1>7, <2>1, <3>1, <3>2, BeginStartReaches
  <2> QED
    BY <2>2, <2>3
<1>8. ASSUME Sdk(w)
      PROVE  Reached'
  <2>1. At(w, "sdk") /\ UNCHANGED <<account, pool, running>> /\ BeginStart(w, account[me[w].account].backend, "ignore")
    BY <1>8 DEF Sdk, accounts
  <2>2. NeedsAccount(todo[w])
    BY <2>1, AtStep DEF BaseInv, NeedsAccount
  <2>3. PICK n \in 1..Len(account) : n = me[w].account
    BY <1>5, <2>2
  <2>4. /\ BeginStart(w, account[n].backend, "ignore") /\ Served(account[n].backend)
        /\ "ignore" = "abort" => "sdk" = "addStart"
    BY <1>5, <2>1, <2>2, <2>3
  <2> QED
    BY <2>1, <2>4, BeginStartReaches
<1>9. ASSUME MarkReady(w)
      PROVE  Reached'
  <2>1. /\ At(w, "markReady") /\ UNCHANGED <<account, pool, running>> /\ ReadyAt(back', back, me[w].backend)
        /\ Proceed(w, Rest(w), Forgotten(me[w]))
    BY <1>9 DEF MarkReady, accounts, ReadyAt
  <2>2. back \in Seq(BackendRecord) /\ me[w].backend \in Nat /\ ReadyAt(back', back, me[w].backend)
    BY <1>1, <2>1 DEF Locals
  <2>3. /\ back' \in Seq(BackendRecord) /\ Len(back') = Len(back)
        /\ \A i \in 1..Len(back) : /\ back'[i].token = back[i].token /\ back'[i].client = back[i].client
                                   /\ (i = me[w].backend => back'[i].ready) /\ (i # me[w].backend => back'[i].ready = back[i].ready)
    BY ONLY <2>2, BackendReady
  <2>4. "markReady" \in LaunchSteps
    BY DEF LaunchSteps
  <2> QED
    BY <2>1, <2>3, <2>4, MarkReaches
<1>10. ASSUME MarkFailed(w)
       PROVE  Reached'
  <2> DEFINE err == back[me[w].backend].token = "" /\ me[w].onError # "ignore"
             ends == err /\ me[w].onError = "fail" /\ me[w].op \notin {"logout", "delete"}
             q == IF ends THEN <<>> ELSE IF err /\ me[w].onError = "abort" THEN <<"abort">> ELSE Rest(w)
  <2>1. /\ At(w, "markFailed") /\ UNCHANGED <<account, pool, running>> /\ UnreadyAt(back', back, me[w].backend)
        /\ Proceed(w, q, Forgotten(me[w]))
    BY <1>10 DEF MarkFailed, accounts, UnreadyAt
  <2>2. q \in {<<>>, Rest(w)} \/ (q = <<"abort">> /\ me[w].onError = "abort")
    OBVIOUS
  <2> HIDE DEF q
  <2>3. back \in Seq(BackendRecord) /\ me[w].backend \in Nat /\ UnreadyAt(back', back, me[w].backend)
    BY <1>1, <2>1 DEF Locals
  <2>4. /\ back' \in Seq(BackendRecord) /\ Len(back') = Len(back)
        /\ \A i \in 1..Len(back) : /\ back'[i].token = back[i].token /\ back'[i].client = back[i].client
                                   /\ (i = me[w].backend => ~back'[i].ready) /\ (i # me[w].backend => back'[i].ready = back[i].ready)
    BY ONLY <2>3, BackendUnready
  <2>5. "markFailed" \in LaunchSteps
    BY DEF LaunchSteps
  <2> QED
    BY <2>1, <2>2, <2>4, <2>5, MarkReaches
<1>11. ASSUME CheckFree(w) \/ Issue(w) \/ Authorize(w) \/ DropState(w) \/ ListAccount(w) \/ StoreToken(w)
              \/ Exchange(w) \/ Gather(w)
       PROVE  Reached'
  <2>1. \E s \in {"check", "issue", "authorize", "dropState", "list", "store", "exchange", "gather"} :
           At(w, s) /\ UNCHANGED <<account, back, pool, running>>
    BY <1>11 DEF CheckFree, Issue, Authorize, DropState, ListAccount, StoreToken, Exchange, Gather, accounts, clients
  <2>2. \/ \E q \in {Rest(w), <<>>} : Proceed(w, q, me[w])
        \/ Proceed(w, Rest(w), [me[w] EXCEPT !.account = pool[me[w].id]])
        \/ Proceed(w, Rest(w), [me[w] EXCEPT !.found = @ \cup {account[me[w].account].id}])
    BY <1>11 DEF CheckFree, Issue, Authorize, DropState, ListAccount, StoreToken, Exchange, Gather, Continue, Return
  <2>3. PICK s \in {"check", "issue", "authorize", "dropState", "list", "store", "exchange", "gather"} :
           At(w, s) /\ UNCHANGED <<account, back, pool, running>>
    BY <2>1
  <2>4. s \in Plain /\ Still(s) /\ SameBackends
    BY <1>4, <2>3
  <2>5. Quiet(<<>>) /\ ~NeedsAccount(<<>>)
    BY <2>3, QuietNext, NeedsNext
  <2>6. /\ [me[w] EXCEPT !.account = pool[me[w].id]].queue = me[w].queue
        /\ [me[w] EXCEPT !.found = @ \cup {account[me[w].account].id}].queue = me[w].queue
    BY <1>1 DEF Locals
  <2> HIDE DEF Still, Plain
  <2> QED
    BY <1>6, <2>2, <2>4, <2>5, <2>6
<1>12. ASSUME Look(w)
       PROVE  Reached'
  <2>1. At(w, "look") /\ UNCHANGED <<account, back, pool, running>>
    BY <1>12 DEF Look, accounts, clients
  <2>2. \/ \E q \in {RefreshAccount, <<>>} : Proceed(w, q, me[w])
        \/ \E f : Proceed(w, Rest(w), [me[w] EXCEPT !.flow = f])
    BY <1>12 DEF Look, Return
  <2>3. Quiet(RefreshAccount) /\ ~NeedsAccount(RefreshAccount)
    BY DEF Quiet, Launches, Rebuilds, LaunchSteps, RefreshAccount, NeedsAccount
  <2>4. Quiet(<<>>) /\ ~NeedsAccount(<<>>)
    BY <2>1, QuietNext, NeedsNext
  <2>5. \A f : [me[w] EXCEPT !.flow = f].queue = me[w].queue
    BY <1>1 DEF Locals
  <2>6. "look" \in Plain /\ Still("look") /\ SameBackends
    BY <1>4, <2>1
  <2> HIDE DEF Still, Plain
  <2> QED
    BY <1>6, <2>2, <2>3, <2>4, <2>5, <2>6
<1>13. ASSUME NEW s \in {"enable", "disable"}, NEW e \in BOOLEAN, SetEnabled(w, s, e)
       PROVE  Reached'
  <2>1. Still(s) /\ s \in Plain
    BY <1>13 DEF SetEnabled, clients
  <2>2. \E q \in {Rest(w), <<>>} : Proceed(w, q, me[w])
    BY <1>13 DEF SetEnabled, Continue, Return
  <2>3. SameBackends
    <3>1. CASE UNCHANGED account
      BY <1>4, <3>1
    <3>2. CASE EnabledSet(account', account, pool[me[w].id])
      <4>1. account \in Seq(AccountRecord) /\ pool[me[w].id] \in Nat /\ EnabledSet(account', account, pool[me[w].id])
        BY <1>1, <3>2
      <4>2. Len(account') = Len(account) /\ \A i \in 1..Len(account) : account'[i].backend = account[i].backend
        BY ONLY <4>1, AccountEnabled
      <4> QED
        BY <4>2 DEF SameBackends
    <3> QED
      BY <1>13, <3>1, <3>2 DEF SetEnabled, EnabledSet
  <2>4. Quiet(<<>>) /\ ~NeedsAccount(<<>>)
    BY <2>1, QuietNext, NeedsNext
  <2> HIDE DEF Still, Plain
  <2> QED
    BY <1>6, <2>1, <2>2, <2>3, <2>4
<1>14. ASSUME NEW a \in Nat, NEW t \in Tokens, TokenSet(account', account, a, t)
       PROVE  SameBackends
  <2>1. Len(account') = Len(account) /\ \A i \in 1..Len(account) : account'[i].backend = account[i].backend
    <3>1. account \in Seq(AccountRecord) /\ TokenSet(account', account, a, t)
      BY <1>1, <1>14
    <3> QED
      BY ONLY <3>1, AccountToken
  <2> QED
    BY <2>1 DEF SameBackends
<1>15. ASSUME KeepToken(w)
       PROVE  Reached'
  <2>1. Still("memory") /\ TokenSet(account', account, me[w].account, me[w].token) /\ Proceed(w, Rest(w), me[w])
    BY <1>15 DEF KeepToken, clients, TokenSet, Continue
  <2>2. SameBackends /\ "memory" \in Plain
    BY <1>1, <1>14, <2>1 DEF Locals
  <2> HIDE DEF Still, Plain
  <2> QED
    BY <1>6, <2>1, <2>2
<1>16. ASSUME ClearToken(w)
       PROVE  Reached'
  <2>1. Still("clear")
    BY <1>16 DEF ClearToken, clients
  <2>2. UNCHANGED account \/ TokenSet(account', account, pool[me[w].id], "")
    BY <1>16 DEF ClearToken, TokenSet
  <2>3. \E q \in {AfterRebuild(Rest(w)), Rest(w), <<"dropState">> \o AfterRebuild(Rest(w))} : Proceed(w, q, me[w])
    BY <1>16 DEF ClearToken
  <2>4. /\ Quiet(AfterRebuild(Rest(w))) /\ Quiet(<<"dropState">> \o AfterRebuild(Rest(w)))
        /\ ~NeedsAccount(AfterRebuild(Rest(w))) /\ ~NeedsAccount(<<"dropState">> \o AfterRebuild(Rest(w)))
    <3>1. At(w, "clear") /\ "clear" \in RebuildSteps
      BY <2>1 DEF RebuildSteps
    <3> QED
      BY <3>1, QuietNext, NeedsNext
  <2>5. SameBackends
    <3>1. "" \in Tokens /\ pool[me[w].id] \in Nat
      BY <1>1 DEF Tokens
    <3> QED
      BY <1>4, <1>14, <2>2, <3>1
  <2> HIDE DEF Still, Plain
  <2> QED
    BY <1>6, <2>1, <2>3, <2>4, <2>5
<1>17. ASSUME Unlist(w)
       PROVE  Reached'
  <2> DEFINE l == [me[w] EXCEPT !.account = pool[me[w].id]]
  <2>1. At(w, "unlist") /\ UNCHANGED <<account, back, pool, running>>
    BY <1>17 DEF Unlist, accounts, clients
  <2>2. \/ Proceed(w, <<>>, me[w])
        \/ pool[me[w].id] # 0 /\ Proceed(w, Rest(w), l)
    BY <1>17 DEF Unlist, Return, Enabled
  <2>3. l.account = pool[me[w].id] /\ l.queue = me[w].queue
    BY <1>1 DEF Locals
  <2> HIDE DEF l
  <2>4. Quiet(<<>>) /\ ~NeedsAccount(<<>>) /\ Quiet(Rest(w))
    BY <2>1, QuietNext, NeedsNext
  <2>5. pool[me[w].id] # 0 => l.account \in 1..Len(account) /\ Pooled(l.account)
    BY <1>1, <1>2, <2>3 DEF Pooled
  <2>6. CASE Proceed(w, <<>>, me[w])
    BY <1>3, <1>4, <2>1, <2>4, <2>6, StillReaches
  <2>7. CASE pool[me[w].id] # 0 /\ Proceed(w, Rest(w), l)
    BY <1>3, <1>4, <2>1, <2>3, <2>4, <2>5, <2>7, StillReaches
  <2> QED
    BY <2>2, <2>6, <2>7
<1>18. ASSUME Visit(w)
       PROVE  Reached'
  <2>1. At(w, "visit") /\ UNCHANGED <<account, back, pool, running>>
    BY <1>18 DEF Visit, accounts, clients
  <2>2. /\ Quiet(<<"visit">>) /\ Quiet(<<"sdk", "gather", "visit">>) /\ Quiet(<<>>)
        /\ ~NeedsAccount(<<"visit">>) /\ ~NeedsAccount(<<>>)
    BY DEF Quiet, Launches, Rebuilds, LaunchSteps, NeedsAccount
  <2>3. CASE me[w].queue = {}
    <3>1. Proceed(w, <<>>, me[w])
      BY <1>18, <2>3 DEF Visit, Return
    <3> QED
      BY <1>3, <1>4, <2>1, <2>2, <3>1, StillReaches
  <2>4. CASE me[w].queue # {}
    <3>1. PICK a \in me[w].queue :
            Proceed(w, IF account[a].enabled THEN <<"sdk", "gather", "visit">> ELSE <<"visit">>,
                    [me[w] EXCEPT !.queue = @ \ {a}, !.account = a])
      BY <1>18, <2>4 DEF Visit
    <3> DEFINE l == [me[w] EXCEPT !.queue = @ \ {a}, !.account = a]
    <3>2. PICK q \in {<<"sdk", "gather", "visit">>, <<"visit">>} : Proceed(w, q, l)
      BY <3>1
    <3>3. l.account = a /\ l.queue \subseteq me[w].queue
      BY <1>1 DEF Locals
    <3> HIDE DEF l
    <3>4. a \in 1..Len(account) /\ Pooled(a)
      BY <2>1, Referred DEF Reached, UsesPooled, At
    <3> QED
      BY <1>3, <1>4, <2>1, <2>2, <3>2, <3>3, <3>4, StillReaches
  <2> QED
    BY <2>3, <2>4
<1>19. ASSUME NEW s \in {"close", "swap", "abort"}, At(w, s)
       PROVE  /\ me[w].account \in 1..Len(account) /\ Pooled(me[w].account)
              /\ account[me[w].account].id = me[w].id
  <2>1. NeedsAccount(todo[w])
    BY <1>19, AtStep DEF BaseInv, NeedsAccount
  <2>2. me[w].op # "none"
    BY <1>19, HandlerAt DEF LaunchSteps
  <2> QED
    BY <1>5, <2>1, <2>2 DEF IdsMatch
<1>20. ASSUME CloseOld(w)
       PROVE  Reached'
  <2>1. PICK a \in 1..Len(account) : a = me[w].account
    BY <1>19, <1>20 DEF CloseOld
  <2>2. At(w, "close") /\ UNCHANGED <<account, pool>> /\ Close(w, account[a].backend) /\ Proceed(w, Rest(w), me[w])
    BY <1>20, <2>1 DEF CloseOld, accounts, Continue
  <2> QED
    BY <2>1, <2>2, ClosingReaches
<1>21. ASSUME Abort(w)
       PROVE  Reached'
  <2>1. PICK a \in 1..Len(account) : a = me[w].account
    BY <1>19, <1>21 DEF Abort
  <2>2. /\ At(w, "abort") /\ pool' = [pool EXCEPT ![me[w].id] = 0] /\ Close(w, account[a].backend)
        /\ UNCHANGED account /\ Proceed(w, <<>>, me[w])
    BY <1>21, <2>1 DEF Abort, Return
  <2>3. pool[me[w].id] = a
    BY <1>19, <2>1, <2>2 DEF Pooled
  <2> QED
    BY <2>2, <2>3, ClosingReaches
<1>22. ASSUME RemoveAccount(w)
       PROVE  Reached'
  <2>1. At(w, "remove") /\ UNCHANGED account
    BY <1>22 DEF RemoveAccount
  <2>2. CASE pool[me[w].id] = 0
    <3>1. UNCHANGED <<back, pool, running>> /\ Proceed(w, <<>>, me[w])
      BY <1>22, <2>2 DEF RemoveAccount, clients, Return
    <3>2. Quiet(<<>>) /\ ~NeedsAccount(<<>>)
      BY <2>1, QuietNext, NeedsNext
    <3> QED
      BY <1>3, <1>4, <2>1, <3>1, <3>2, StillReaches
  <2>3. CASE pool[me[w].id] # 0
    <3>1. PICK a \in 1..Len(account) : a = pool[me[w].id]
      BY <1>1, <1>2, <2>3
    <3>2. pool' = [pool EXCEPT ![me[w].id] = 0] /\ Close(w, account[a].backend) /\ Proceed(w, Rest(w), me[w])
      BY <1>22, <2>3, <3>1 DEF RemoveAccount, Continue
    <3> QED
      BY <2>1, <3>1, <3>2, ClosingReaches
  <2> QED
    BY <2>2, <2>3
<1>23. ASSUME SwapBackend(w)
       PROVE  Reached'
  <2>1. /\ At(w, "swap") /\ UNCHANGED <<back, pool, running>>
        /\ BackendSet(account', account, me[w].account, me[w].backend)
    BY <1>23 DEF SwapBackend, clients, BackendSet
  <2>2. PICK q \in {Rest(w), AfterRebuild(Rest(w))} : Proceed(w, q, me[w])
    BY <1>23 DEF SwapBackend, Continue
  <2>3. Quiet(q) /\ ~NeedsAccount(q)
    <3>1. "swap" \in RebuildSteps
      BY DEF RebuildSteps
    <3>2. Quiet(Rest(w)) /\ Quiet(AfterRebuild(Rest(w))) /\ ~NeedsAccount(AfterRebuild(Rest(w)))
      BY <2>1, <3>1, QuietNext, NeedsNext
    <3>3. ~NeedsAccount(Rest(w))
      BY <2>1, NeedsNext DEF LaunchSteps
    <3> QED
      BY <3>2, <3>3
  <2>4. OthersWait(w) /\ todo'[w] = q /\ (q # <<>> => me'[w] = me[w])
    BY <2>2, Moves
  <2>5. OthersStay(w) /\ ~Launches(todo'[w]) /\ ~Uses(w)' /\ ~Swaps(w)'
    BY <2>3, <2>4 DEF OthersWait, OthersStay, Uses, Swaps, Quiet, Rebuilds
  <2>6. Swaps(w) /\ me[w].queue = {}
    <3>1. me[w].queue = {}
      BY <2>1, HandlerAt DEF LaunchSteps
    <3> QED
      BY <2>1, <3>1, AtStep DEF BaseInv, Swaps
  <2>7. /\ Len(account') = Len(account)
        /\ \A n \in 1..Len(account) : account'[n].backend = IF n = me[w].account THEN me[w].backend ELSE account[n].backend
    <3>1. account \in Seq(AccountRecord) /\ me[w].account \in Nat /\ me[w].backend \in Nat
          /\ BackendSet(account', account, me[w].account, me[w].backend)
      BY <1>1, <2>1 DEF Locals
    <3> QED
      BY ONLY <3>1, AccountBackend
  <2> QED
    BY <2>1, <2>4, <2>5, <2>6, <2>7, SwapReaches
<1>24. CASE StartAccount(w, "start", "ignore") \/ StartAccount(w, "addStart", "abort") \/ StartAccount(w, "restart", "fail")
  BY <1>7, <1>24
<1>25. CASE SetEnabled(w, "enable", TRUE) \/ SetEnabled(w, "disable", FALSE)
  BY <1>13, <1>25
<1>26. CASE Launch(w) \/ BuildBackend(w) \/ Install(w)
  BY <1>26, LaunchReaches, BuildReaches, InstallReaches
<1>27. CASE InstallFails(w)
  <2>1. At(w, "install") /\ UNCHANGED <<account, back, pool, running>> /\ Proceed(w, <<>>, me[w])
    BY <1>27 DEF InstallFails, accounts, clients, Return
  <2>2. Quiet(<<>>) /\ ~NeedsAccount(<<>>)
    BY <2>1, QuietNext, NeedsNext
  <2> QED
    BY <1>3, <1>4, <2>1, <2>2, StillReaches
<1> QED
  BY <1>27, <1>8, <1>9, <1>10, <1>11, <1>12, <1>15, <1>16, <1>17, <1>18, <1>20, <1>21, <1>22, <1>23, <1>24, <1>25, <1>26 DEF Work

(* A worker that is about to swap a backend is replacing one. *)
LEMMA SwappersReplace ==
    ASSUME BaseInv, ~Replacing
    PROVE  \A v \in Goroutine \ {Refresher} : ~Swaps(v)
  BY DEF Replacing, Swaps, At, Goroutine, BaseInv, TypeOK

(* A handler begins, and uses at most the account it was called for. *)
LEMMA BeginReaches ==
    ASSUME BaseInv, IdsMatch, LoopIsNoHandler, BaseInv', Reached, NEW w \in Worker, Begin(w), UNCHANGED scene, ~raced'
    PROVE  Reached'
<1>1. w \in Goroutine /\ Refresher \in Goroutine
  BY DEF Goroutine
<1>2. scene \in Scenes /\ scene.operations \subseteq Operation
  BY AdministrationAssumption DEF BaseInv, TypeOK
<1>3. PICK op \in scene.operations, id \in Id, t \in scene.tokens \cup {""} : Begins(w, op, id, t)
  BY Begun
<1>4. /\ Idle(w) /\ UNCHANGED <<account, back, pool, running>> /\ ~Replacing
      /\ todo' = [todo EXCEPT ![w] = Program(op)]
      /\ me' = [v \in Goroutine |->
                     IF v = w THEN Called(w, op, id, t)
                     ELSE IF v \in Rivals(w, id) /\ op \in TokenOps THEN [me[v] EXCEPT !.alone = FALSE]
                     ELSE me[v]]
  BY <1>3 DEF Begins, accounts, clients
<1>5. todo'[w] = Program(op) /\ \A v \in Goroutine \ {w} : todo'[v] = todo[v]
  BY <1>1, <1>4 DEF BaseInv, TypeOK
<1>6. ASSUME NEW v \in Goroutine \ {w}
      PROVE  /\ me'[v].account = me[v].account /\ me'[v].queue = me[v].queue /\ me'[v].backend = me[v].backend
             /\ me'[v].client = me[v].client /\ me'[v].onError = me[v].onError
  <2>1. me[v] \in Locals
    BY DEF BaseInv, TypeOK
  <2>2. me'[v] = me[v] \/ me'[v] = [me[v] EXCEPT !.alone = FALSE]
    BY <1>4
  <2> QED
    BY <2>1, <2>2 DEF Locals
<1>7. me'[w].account = pool[id] /\ me'[w].queue = {}
  <2>1. me'[w] = Called(w, op, id, t)
    BY <1>1, <1>4
  <2> QED
    BY <2>1 DEF Called, NoLocals
<1>8. OthersStay(w) /\ AccountsStay
  BY <1>4, <1>5, <1>6 DEF OthersStay, AccountsStay
<1>9. ~Launches(Program(op)) /\ ~Swaps(w)' /\ ~Swaps(w)
  <2>1. Program(op)[1] \in {"enable", "disable", "store", "clear", "issue", "look", "unlist", "sdk"}
    BY <1>2, ShapedPrograms
  <2> QED
    BY <1>4, <1>5, <2>1 DEF Launches, LaunchSteps, Swaps, Idle
<1>10. \A v \in Goroutine \ {w} : ~Swaps(v)
  <2>1. ~Swaps(Refresher)
    <3>1. todo[Refresher] \in Seq(StepsOf("none"))
      BY <1>1 DEF BaseInv, GoroutinesOK, LocalOK, LoopIsNoHandler
    <3>2. "swap" \notin StepsOf("none")
      BY DEF StepsOf
    <3> QED
      BY <3>1, <3>2, StepsStay DEF Swaps
  <2> QED
    BY <1>4, <2>1, SwappersReplace
<1>11. Uses(w)' => Pooled(me[w].account)'
  <2> SUFFICES ASSUME Uses(w)'
               PROVE  Pooled(me[w].account)'
    OBVIOUS
  <2>1. NeedsAccount(todo'[w])
    BY <1>5, <1>9 DEF Uses
  <2>2. LocalOK(todo'[w], me'[w], Len(account'), Len(back'))
    BY <1>1 DEF BaseInv, GoroutinesOK
  <2>3. pool[id] # 0
    BY <1>7, <2>1, <2>2 DEF LocalOK
  <2>4. pool[account[pool[id]].id] = pool[id]
    BY <2>3 DEF IdsMatch
  <2> QED
    BY <1>4, <1>7, <2>4 DEF Pooled
<1>12. Len(back) <= Len(back') /\ \A b \in 1..Len(back) : back'[b].client = back[b].client \/ back[b].client = 0
  BY <1>4, Unchanging
<1>13. running' \subseteq running /\ (Launches(todo'[w]) => FALSE) /\ \A n \in me'[w].queue : Pooled(n)'
  BY <1>4, <1>5, <1>7, <1>9
<1> QED
  BY <1>1, <1>8, <1>9, <1>10, <1>11, <1>12, <1>13, CalmReaches

(* A refresh begins with the accounts of the pool. *)
LEMMA TakeSnapshotReaches ==
    ASSUME BaseInv, IdsMatch, BaseInv', Reached, TakeSnapshot, ~raced'
    PROVE  Reached'
<1> DEFINE l == [NoLocals EXCEPT !.queue = {pool[i] : i \in Id} \ {0}]
<1>1. Refresher \in Goroutine
  BY DEF Goroutine
<1>2. l.queue = {pool[i] : i \in Id} \ {0}
  BY DEF NoLocals
<1>3. /\ Idle(Refresher) /\ UNCHANGED <<account, back, pool, running>> /\ ~Replacing
      /\ me' = [me EXCEPT ![Refresher] = l] /\ todo' = [todo EXCEPT ![Refresher] = <<"visit">>]
  BY DEF TakeSnapshot, accounts, clients
<1> HIDE DEF l
<1>4. /\ me'[Refresher] = l /\ todo'[Refresher] = <<"visit">>
      /\ \A v \in Goroutine \ {Refresher} : todo'[v] = todo[v] /\ me'[v] = me[v]
  BY <1>1, <1>3 DEF BaseInv, TypeOK
<1>5. OthersStay(Refresher) /\ AccountsStay
  BY <1>3, <1>4 DEF OthersStay, AccountsStay
<1>6. /\ ~Launches(todo'[Refresher]) /\ ~Uses(Refresher)' /\ ~Swaps(Refresher)' /\ ~Swaps(Refresher)
  BY <1>3, <1>4 DEF Launches, LaunchSteps, Uses, NeedsAccount, Swaps, Idle
<1>7. \A v \in Goroutine \ {Refresher} : ~Swaps(v)
  BY <1>3, SwappersReplace
<1>8. \A n \in me'[Refresher].queue : Pooled(n)'
  BY <1>2, <1>3, <1>4 DEF Pooled, IdsMatch
<1>9. Len(back) <= Len(back') /\ \A b \in 1..Len(back) : back'[b].client = back[b].client \/ back[b].client = 0
  BY <1>3, Unchanging
<1>10. running' \subseteq running
  BY <1>3
<1> QED
  BY <1>1, <1>5, <1>6, <1>7, <1>8, <1>9, <1>10, CalmReaches

(* The configured accounts are in the pool, each with its process. *)
LEMMA InitReached ==
    ASSUME Init
    PROVE  Reached
<1>1. \A w \in Goroutine : todo[w] = <<>>
  BY DEF Init
<1>2. /\ \A n \in 1..Len(account) : account[n].backend = n /\ account[n].id \in Configured /\ pool[account[n].id] = n
      /\ Len(account) = Len(back) /\ \A n \in 1..Len(back) : back[n].client = 1
      /\ running = {<<n, 1>> : n \in 1..Len(account)}
  BY InitObjects
<1>3. ASSUME NEW n \in 1..Len(account)
      PROVE  Served(n)
  <2>1. account[n].id \in Id /\ pool[account[n].id] = n /\ n # 0 /\ account[n].backend = n
    <3>1. account[n].backend = n /\ account[n].id \in Configured /\ pool[account[n].id] = n
      BY <1>2
    <3>2. Configured \subseteq Id
      BY AdministrationAssumption
    <3> QED
      BY <3>1, <3>2
  <2> QED
    BY <2>1 DEF Served
<1>4. ProcessesServed
  BY <1>2, <1>3 DEF ProcessesServed
<1>5. StartsServed /\ UsesPooled /\ SwapsAlone
  BY <1>1 DEF StartsServed, UsesPooled, SwapsAlone, Launches, Uses, NeedsAccount, Swaps
<1> QED
  BY <1>4, <1>5 DEF Reached

(* What happened once is remembered. *)
LEMMA RacedStays ==
    ASSUME NEW w, Work(w), raced
    PROVE  raced'
<1>1. \A b : Close(w, b) => raced'
  BY DEF Close
<1>2. CASE CloseOld(w) \/ Abort(w) \/ RemoveAccount(w)
  BY <1>1, <1>2 DEF CloseOld, Abort, RemoveAccount
<1>3. CASE Install(w) \/ SwapBackend(w)
  BY <1>3 DEF Install, SwapBackend
<1>4. CASE \/ StartAccount(w, "start", "ignore") \/ StartAccount(w, "addStart", "abort")
           \/ StartAccount(w, "restart", "fail") \/ Sdk(w) \/ Launch(w) \/ MarkReady(w) \/ MarkFailed(w)
           \/ SetEnabled(w, "enable", TRUE) \/ SetEnabled(w, "disable", FALSE) \/ CheckFree(w) \/ BuildBackend(w)
           \/ InstallFails(w)
  BY <1>4 DEF StartAccount, Sdk, Launch, MarkReady, MarkFailed, SetEnabled, CheckFree, BuildBackend, InstallFails
<1>5. CASE \/ Issue(w) \/ Look(w) \/ Exchange(w) \/ Authorize(w) \/ StoreToken(w) \/ KeepToken(w)
           \/ ClearToken(w) \/ DropState(w) \/ Unlist(w) \/ ListAccount(w) \/ Visit(w) \/ Gather(w)
  BY <1>5 DEF Issue, Look, Exchange, Authorize, StoreToken, KeepToken, ClearToken, DropState, Unlist, ListAccount,
              Visit, Gather
<1> QED
  BY <1>2, <1>3, <1>4, <1>5 DEF Work

(* LeakInv is inductive beside IdsInv and UseInv. *)
LEMMA NextLeak ==
    ASSUME IdsInv, LoopIsNoHandler, LeakInv, [Next]_vars
    PROVE  LeakInv'
<1>1. BaseInv /\ IdsMatch /\ BaseInv'
  BY NextIds DEF IdsInv
<1> SUFFICES ASSUME ~raced'
             PROVE  Reached'
  BY DEF LeakInv
<1>2. CASE Next
  <2>1. UNCHANGED scene
    BY <1>2 DEF Next
  <2>2. CASE TakeSnapshot
    <3>1. ~raced
      BY <2>2 DEF TakeSnapshot
    <3> QED
      BY <1>1, <2>2, <3>1, TakeSnapshotReaches DEF LeakInv
  <2>3. CASE \E w \in Worker : Begin(w)
    <3>1. PICK w \in Worker : Begin(w)
      BY <2>3
    <3>2. ~raced
      BY <3>1 DEF Begin
    <3> QED
      BY <1>1, <2>1, <3>1, <3>2, BeginReaches DEF LeakInv
  <2>4. CASE \E w \in Goroutine : Work(w)
    <3>1. PICK w \in Goroutine : Work(w)
      BY <2>4
    <3>2. ~raced
      BY <3>1, RacedStays
    <3> QED
      BY <1>1, <2>1, <3>1, <3>2, WorkReaches DEF LeakInv
  <2> QED
    BY <1>2, <2>2, <2>3, <2>4 DEF Next
<1>3. CASE UNCHANGED vars
  <2>1. UNCHANGED <<account, back, pool, todo, me, running, raced>>
    BY <1>3 DEF vars
  <2> QED
    BY <2>1 DEF LeakInv, Reached, ProcessesServed, StartsServed, UsesPooled, SwapsAlone, Served, Pooled, Uses, Swaps
<1> QED
  BY <1>2, <1>3

(* Spec implies always LeakNeedsOverlap, the property of Administration: when  *)
(* nobody is at work, a client process that no account of the pool can reach   *)
(* is left only if a backend was given up while another goroutine was at work. *)
THEOREM LeaksNeedOverlap == Spec => []LeakNeedsOverlap
<1> DEFINE Inv == IdsInv /\ UseInv /\ LoopIsNoHandler /\ LeakInv
<1>1. Init => Inv
  <2>1. Init => LoopIsNoHandler
    <3>1. Init => me = [w \in Goroutine |-> NoLocals]
      BY DEF Init
    <3>2. Refresher \in Goroutine /\ NoLocals.op = "none"
      BY DEF Goroutine, NoLocals
    <3> QED
      BY <3>1, <3>2 DEF LoopIsNoHandler
  <2> QED
    BY <2>1, InitIds, InitUse, InitReached DEF LeakInv
<1>2. Inv /\ [Next]_vars => Inv'
  BY NextIds, NextUse, NextLeak
<1>3. Inv => LeakNeedsOverlap
  <2> SUFFICES ASSUME Reached, NEW p \in running
               PROVE  \E i \in Id : pool[i] # 0 /\ account[pool[i]].backend = p[1] /\ back[p[1]].client = p[2]
    BY DEF LeakInv, LeakNeedsOverlap
  <2> QED
    BY DEF Reached, ProcessesServed, Served
<1> QED
  BY <1>1, <1>2, <1>3, PTL DEF Spec

-----------------------------------------------------------------------------
(* What a logout that runs alone leaves behind, step by step, and what the     *)
(* later handlers of its id find.                                              *)

(* The steps in which a logout takes the token back, last one first. *)
TakingBack == <<"swap", "close", "build", "dropState", "clear">>
GiveUp == {"clear", "dropState", "build", "close", "swap"}
Settled == Step \ GiveUp

(* The last n of them are ahead, and none after them. *)
Ahead(q, n) ==
    /\ n <= Len(q)
    /\ \A k \in 1..Len(q) : IF k <= n THEN q[k] = TakingBack[n + 1 - k] ELSE q[k] \in Settled
(* Only the login state is left to drop. *)
AheadDrop(q) ==
    /\ q # <<>> /\ q[1] = "dropState"
    /\ \A k \in 2..Len(q) : q[k] \in Settled

(* Without a login: the ids whose backend would ask the vault, and the token   *)
(* that the backends of the others have.                                       *)
Asking == {i \in Id : AsksVault(i, "")}
Standing(i) == IF scene.given[i] # "" THEN scene.given[i] ELSE scene.ambient[i]

Loggedout(i) == account[pool[i]].token = ""
Tokenless(i) == i \notin Asking => back[account[pool[i]].backend].token = Standing(i)

(* A logout is done. *)
Gone(i) == (pool[i] # 0 => Loggedout(i) /\ Tokenless(i)) /\ states[i] = 0

(* How far a logout with the steps q and the locals l has come. *)
Stage(q, l) ==
    /\ pool[l.id] # 0
    /\ \/ Ahead(q, 5) /\ (Loggedout(l.id) => Tokenless(l.id))
       \/ Ahead(q, 4) /\ Loggedout(l.id)
       \/ AheadDrop(q) /\ Loggedout(l.id) /\ Tokenless(l.id)
       \/ Ahead(q, 3) /\ Loggedout(l.id) /\ states[l.id] = 0
       \/ /\ Ahead(q, 2) \/ Ahead(q, 1)
          /\ Loggedout(l.id) /\ states[l.id] = 0
          /\ l.account = pool[l.id] /\ (l.id \notin Asking => back[l.backend].token = Standing(l.id))
       \/ Ahead(q, 0) /\ Loggedout(l.id) /\ Tokenless(l.id) /\ states[l.id] = 0

TokenBusy(v, i) == todo[v] # <<>> /\ me[v].id = i /\ me[v].op \in TokenOps
LogoutAlone(w) == todo[w] # <<>> /\ me[w].op = "logout" /\ me[w].alone

(* The steps that can bring a token back, in an account, a backend or a login. *)
Handing == {"store", "memory", "install", "build", "close", "swap", "clear", "issue", "exchange"}
(* What a token operation of a logged out id still has to do: nothing of the   *)
(* kind, unless it is about to find that there is nothing to clear or to poll. *)
Spent(q) == q \in Seq(Step \ Handing) \/ (q # <<>> /\ q[1] \in {"clear", "look"})

LogoutsAlone == \A w \in Worker : LogoutAlone(w) =>
    /\ \A v \in Worker \ {w} : ~TokenBusy(v, me[w].id)
    /\ Stage(todo[w], me[w])
ClearedStay == \A i \in cleared :
    /\ Gone(i)
    /\ \A v \in Worker : TokenBusy(v, i) => Spent(todo[v])

LogoutInv == LogoutsAlone /\ ClearedStay

(* The lists of a logout, from one step to the next. *)
LEMMA AheadTail ==
    ASSUME NEW q \in Seq(Step), NEW n \in 1..5, Ahead(q, n)
    PROVE  /\ q # <<>> /\ Ahead(Tail(q), n - 1)
           /\ n = 5 => q[1] = "clear" /\ Ahead(Tail(q), 4) /\ Tail(q) # <<>>
           /\ n = 4 => q[1] = "dropState" /\ Ahead(Tail(q), 3) /\ Tail(q) # <<>>
           /\ n = 3 => q[1] = "build" /\ Ahead(Tail(q), 2) /\ Tail(q) # <<>>
           /\ n = 2 => q[1] = "close" /\ Ahead(Tail(q), 1) /\ Tail(q) # <<>>
           /\ n = 1 => q[1] = "swap" /\ Ahead(Tail(q), 0)
<1>1. Len(q) \in Nat /\ n <= Len(q) /\ n \in Nat /\ n >= 1
  BY DEF Ahead
<1>2. q # <<>> /\ q[1] = TakingBack[n]
  BY <1>1 DEF Ahead
<1>3. TakingBack[5] = "clear" /\ TakingBack[4] = "dropState" /\ TakingBack[3] = "build"
      /\ TakingBack[2] = "close" /\ TakingBack[1] = "swap"
  BY DEF TakingBack
<1>4. Ahead(Tail(q), n - 1)
  <2>1. Len(Tail(q)) = Len(q) - 1 /\ \A k \in 1..Len(Tail(q)) : Tail(q)[k] = q[k + 1]
    BY <1>2
  <2>2. ASSUME NEW k \in 1..Len(Tail(q))
        PROVE  IF k <= n - 1 THEN Tail(q)[k] = TakingBack[n - k] ELSE Tail(q)[k] \in Settled
    <3>1. k + 1 \in 1..Len(q) /\ (k + 1 <= n <=> k <= n - 1) /\ n + 1 - (k + 1) = n - k
      BY <1>1, <2>1
    <3> QED
      BY <2>1, <3>1 DEF Ahead
  <2>3. n - 1 <= Len(Tail(q)) /\ \A k \in 1..Len(Tail(q)) : (n - 1) + 1 - k = n - k
    BY <1>1, <2>1
  <2> QED
    BY <2>2, <2>3 DEF Ahead
<1>5. n > 1 => Tail(q) # <<>>
  BY <1>1, <1>2
<1>6. 5 - 1 = 4 /\ 4 - 1 = 3 /\ 3 - 1 = 2 /\ 2 - 1 = 1 /\ 1 - 1 = 0
  OBVIOUS
<1> QED
  BY <1>2, <1>3, <1>4, <1>5, <1>6

(* Nothing is ahead of a list of other steps. *)
LEMMA AheadSettled ==
    ASSUME NEW q \in Seq(Step)
    PROVE  /\ Ahead(q, 0) <=> q \in Seq(Settled)
           /\ AheadDrop(q) => Tail(q) \in Seq(Settled)
<1>1. Len(q) \in Nat /\ (\A k \in 1..Len(q) : ~(k <= 0)) /\ 0 <= Len(q)
  OBVIOUS
<1>2. Ahead(q, 0) <=> \A k \in 1..Len(q) : q[k] \in Settled
  BY <1>1 DEF Ahead
<1>3. (\A k \in 1..Len(q) : q[k] \in Settled) <=> q \in Seq(Settled)
  OBVIOUS
<1>4. ASSUME AheadDrop(q)
      PROVE  Tail(q) \in Seq(Settled)
  <2>1. Tail(q) \in Seq(Step) /\ \A k \in 1..Len(Tail(q)) : Tail(q)[k] = q[k + 1] /\ k + 1 \in 2..Len(q)
    BY <1>4 DEF AheadDrop
  <2> DEFINE t == Tail(q)
  <2>2. t \in Seq(Step) /\ \A k \in 1..Len(t) : t[k] \in Settled
    BY <1>4, <2>1 DEF AheadDrop
  <2> HIDE DEF t
  <2>3. t \in Seq(Settled)
    BY <2>2
  <2> QED
    BY <2>3 DEF t
<1> QED
  BY <1>2, <1>3, <1>4

(* Once rebuilt, a handler takes no token back and brings none. *)
LEMMA RebuiltIsCalm ==
    ASSUME NEW q \in Seq(Step), q # <<>>, Shaped(q), q[1] \in RebuildSteps
    PROVE  /\ AfterRebuild(Tail(q)) \in Seq(Step \ Meddling)
           /\ AheadDrop(<<"dropState">> \o AfterRebuild(Tail(q)))
           /\ AfterRebuild(Tail(q)) \in Seq(Settled) /\ AfterRebuild(Tail(q)) \in Seq(Step \ Handing)
           /\ <<"dropState">> \o AfterRebuild(Tail(q)) \in Seq(Step \ Handing)
<1> DEFINE r == AfterRebuild(Tail(q))
<1>1. PICK d \in 2..Len(q) : q[d] = "restart" /\ Left(q, r, d)
  BY AfterRebuildLeft
<1>2. r \in Seq(Step) /\ Len(r) = Len(q) - d /\ \A i \in 1..Len(r) : r[i] = q[d + i]
  BY <1>1 DEF Left
<1> HIDE DEF r
<1>3. ASSUME NEW i \in 1..Len(r)
      PROVE  r[i] \in Step \ Meddling
  <2>1. d + i \in d..Len(q) /\ d \in 1..Len(q)
    BY <1>1, <1>2
  <2>2. r[i] \notin Meddling
    BY <1>1, <1>2, <2>1 DEF Shaped
  <2> QED
    BY <1>2, <2>2
<1>4. r \in Seq(Step \ Meddling)
  BY <1>2, <1>3
<1>5. Step \ Meddling \subseteq Settled /\ Step \ Meddling \subseteq Step \ Handing /\ "dropState" \in Step \ Handing
  BY DEF Meddling, Settled, GiveUp, Handing, Step
<1>6. r \in Seq(Settled) /\ r \in Seq(Step \ Handing)
  BY <1>4, <1>5
<1>7. <<"dropState">> \o r \in Seq(Step \ Handing)
  BY <1>5, <1>6, StepsStay
<1>8. AheadDrop(<<"dropState">> \o r)
  <2> DEFINE t == <<"dropState">> \o r
  <2>1. t # <<>> /\ t[1] = "dropState" /\ Len(t) = Len(r) + 1 /\ \A k \in 2..Len(t) : t[k] = r[k - 1] /\ k - 1 \in 1..Len(r)
    BY <1>6
  <2>2. \A k \in 1..Len(r) : r[k] \in Settled
    BY <1>6
  <2> HIDE DEF t
  <2>3. AheadDrop(t)
    BY <2>1, <2>2 DEF AheadDrop
  <2> QED
    BY <2>3 DEF t
<1> QED
  BY <1>4, <1>6, <1>7, <1>8 DEF r

(* The steps in which an account's token is given up. *)
LEMMA GaveUp ==
    /\ GiveUpToken \in Seq(Step) /\ Len(GiveUpToken) = 6 /\ GiveUpToken[1] = "clear" /\ GiveUpToken[2] = "dropState"
    /\ GiveUpToken[3] = "build" /\ GiveUpToken[4] = "close" /\ GiveUpToken[5] = "swap" /\ GiveUpToken[6] = "restart"
<1> DEFINE p == <<"clear", "dropState">>
<1>1. p \in Seq(Step) /\ Len(p) = 2 /\ p[1] = "clear" /\ p[2] = "dropState"
  BY DEF Step
<1>2. /\ RebuildBackend \in Seq(Step) /\ Len(RebuildBackend) = 4 /\ RebuildBackend[1] = "build"
      /\ RebuildBackend[2] = "close" /\ RebuildBackend[3] = "swap" /\ RebuildBackend[4] = "restart"
  BY DEF RebuildBackend, Step
<1>3. GiveUpToken = p \o RebuildBackend
  BY DEF GiveUpToken
<1> HIDE DEF p
<1>4. /\ GiveUpToken \in Seq(Step) /\ Len(GiveUpToken) = 6
      /\ \A i \in 1..2 : GiveUpToken[i] = p[i]
      /\ \A i \in 1..4 : GiveUpToken[2 + i] = RebuildBackend[i]
  <2> DEFINE r == RebuildBackend
  <2>1. r \in Seq(Step) /\ Len(r) = 4
    BY <1>2
  <2> HIDE DEF r
  <2>2. /\ p \o r \in Seq(Step) /\ Len(p \o r) = Len(p) + Len(r)
        /\ \A i \in 1..Len(p) : (p \o r)[i] = p[i]
        /\ \A i \in 1..Len(r) : (p \o r)[Len(p) + i] = r[i]
    BY <1>1, <2>1, Concatenated
  <2> QED
    BY <1>1, <1>3, <2>1, <2>2 DEF r
<1>5. /\ GiveUpToken[2 + 1] = "build" /\ GiveUpToken[2 + 2] = "close" /\ GiveUpToken[2 + 3] = "swap"
      /\ GiveUpToken[2 + 4] = "restart"
  BY <1>2, <1>4
<1> QED
  BY <1>1, <1>4, <1>5

(* What the handlers that a logged out id may see begin with. *)
LEMMA TokenPrograms ==
    /\ Ahead(Program("logout"), 5)
    /\ Program("delete") # <<>> /\ Program("delete")[1] = "clear"
    /\ Program("poll") # <<>> /\ Program("poll")[1] = "look"
<1>1. Program("logout") = GiveUpToken \o RefreshAccount
  BY DEF Program, adminUserLogout, GiveUpToken
<1>2. Program("delete") = (GiveUpToken \o <<"remove">>) \o RefreshAccount
  BY DEF Program, adminDeleteUser, GiveUpToken
<1>3. GiveUpToken \in Seq(Step) /\ GiveUpToken[1] = "clear" /\ RefreshAccount \in Seq(Step) /\ GiveUpToken # <<>>
      /\ Harmless(RefreshAccount)
  BY ShapedParts
<1>4. /\ Len(GiveUpToken) = 6 /\ GiveUpToken[1] = "clear" /\ GiveUpToken[2] = "dropState"
      /\ GiveUpToken[3] = "build" /\ GiveUpToken[4] = "close" /\ GiveUpToken[5] = "swap" /\ GiveUpToken[6] = "restart"
  BY GaveUp
<1>5. Ahead(Program("logout"), 5)
  <2> DEFINE q == GiveUpToken \o RefreshAccount
  <2>1. /\ Len(q) = 6 + Len(RefreshAccount) /\ Len(RefreshAccount) \in Nat
        /\ \A k \in 1..(6 + Len(RefreshAccount)) : q[k] = IF k <= 6 THEN GiveUpToken[k] ELSE RefreshAccount[k - 6]
    <3> DEFINE g == GiveUpToken
               r == RefreshAccount
    <3>1. g \in Seq(Step) /\ r \in Seq(Step) /\ Len(g) = 6
      BY <1>3, <1>4
    <3> HIDE DEF g, r
    <3>2. Len(r) \in Nat
      BY <3>1
    <3>3. /\ Len(g \o r) = Len(g) + Len(r)
          /\ \A k \in 1..(Len(g) + Len(r)) : (g \o r)[k] = IF k <= Len(g) THEN g[k] ELSE r[k - Len(g)]
      BY ONLY <3>1, Concatenated
    <3> QED
      BY <3>1, <3>2, <3>3 DEF g, r
  <2>2. \A k \in 1..5 : q[k] = TakingBack[6 - k]
    BY <1>4, <2>1 DEF TakingBack
  <2>3. \A k \in 1..Len(RefreshAccount) : RefreshAccount[k] \in Settled
    <3>1. \A k \in 1..Len(RefreshAccount) : RefreshAccount[k] \in Step
      BY <1>3
    <3>2. GiveUp \subseteq Meddling
      BY DEF GiveUp, Meddling
    <3> QED
      BY <1>3, <3>1, <3>2 DEF Harmless, Settled
  <2>4. "restart" \in Settled
    BY DEF Settled, GiveUp, Step
  <2> HIDE DEF q
  <2>5. ASSUME NEW k \in 1..Len(q)
        PROVE  IF k <= 5 THEN q[k] = TakingBack[5 + 1 - k] ELSE q[k] \in Settled
    <3>1. CASE k <= 5
      BY <2>2, <3>1
    <3>2. CASE k = 6
      BY <1>4, <2>1, <2>4, <3>2
    <3>3. CASE k > 6
      <4>1. k - 6 \in 1..Len(RefreshAccount) /\ q[k] = RefreshAccount[k - 6]
        BY <2>1, <3>3
      <4> QED
        BY <2>3, <3>3, <4>1
    <3> QED
      BY <2>1, <3>1, <3>2, <3>3
  <2>6. Ahead(q, 5)
    BY <2>1, <2>5 DEF Ahead
  <2> QED
    BY <1>1, <2>6 DEF q
<1>6. Program("delete") # <<>> /\ Program("delete")[1] = "clear"
  <2>1. <<"remove">> \in Seq(Step)
    BY DEF Step
  <2>2. (GiveUpToken \o <<"remove">>) \in Seq(Step) /\ (GiveUpToken \o <<"remove">>)[1] = "clear" /\ (GiveUpToken \o <<"remove">>) # <<>>
    BY <1>3, <2>1, Concatenated
  <2> DEFINE p == GiveUpToken \o <<"remove">>
  <2> HIDE DEF p
  <2>3. p \in Seq(Step) /\ p[1] = "clear" /\ p # <<>>
    BY <2>2 DEF p
  <2>4. (p \o RefreshAccount) # <<>> /\ (p \o RefreshAccount)[1] = "clear"
    BY <1>3, <2>3, Concatenated
  <2> QED
    BY <1>2, <2>4 DEF p
<1>7. Program("poll") # <<>> /\ Program("poll")[1] = "look"
  <2> DEFINE p == <<"look", "exchange">>
  <2>1. Program("poll") = ((p \o ApplyToken) \o <<"authorize">>) \o RefreshAccount
    BY DEF Program, adminUserLoginPoll
  <2>2. ApplyToken \in Seq(Step) /\ RefreshAccount \in Seq(Step) /\ p \in Seq(Step) /\ <<"authorize">> \in Seq(Step)
        /\ p[1] = "look" /\ p # <<>>
    BY ShapedParts DEF Step
  <2> HIDE DEF p
  <2>3. ASSUME NEW x \in Seq(Step), NEW y \in Seq(Step), x # <<>>
        PROVE  x \o y \in Seq(Step) /\ x \o y # <<>> /\ (x \o y)[1] = x[1]
    BY <2>3
  <2>5. p \o ApplyToken \in Seq(Step) /\ p \o ApplyToken # <<>> /\ (p \o ApplyToken)[1] = "look"
    BY <2>2, <2>3
  <2> DEFINE r == p \o ApplyToken
             t == r \o <<"authorize">>
  <2> HIDE DEF r
  <2>6. t \in Seq(Step) /\ t # <<>> /\ t[1] = "look"
    BY <2>2, <2>3, <2>5 DEF r
  <2> HIDE DEF t
  <2>7. t \o RefreshAccount # <<>> /\ (t \o RefreshAccount)[1] = "look"
    BY <2>2, <2>3, <2>6
  <2> QED
    BY <2>1, <2>7 DEF r, t
<1> QED
  BY <1>5, <1>6, <1>7

(* A logout begins with the step that looks for a token to clear. *)
LEMMA LogoutClears == Program("logout")[1] = "clear"
<1>1. Program("logout") = GiveUpToken \o RefreshAccount
  BY DEF Program, adminUserLogout, GiveUpToken
<1>2. GiveUpToken \in Seq(Step) /\ GiveUpToken[1] = "clear" /\ RefreshAccount \in Seq(Step) /\ GiveUpToken # <<>>
  BY ShapedParts
<1>3. (GiveUpToken \o RefreshAccount)[1] = "clear"
  BY <1>2, Concatenated
<1> QED
  BY <1>1, <1>3

-----------------------------------------------------------------------------
(* How a step leaves the steps of its goroutine, and its call. *)

CallKept(m, l) == SameCall(m, l) /\ m.alone = l.alone
GoesOn(w, q) ==
    \/ q = <<>> \/ q = Rest(w) \/ q = <<"abort">> \/ q = RefreshAccount
    \/ \E h \in LaunchSteps : q = <<h>> \o Rest(w)
    \/ \E s \in RebuildSteps : At(w, s)
    \/ me[w].op = "none"
Proceeds(w) == \E q, l : Proceed(w, q, l) /\ CallKept(l, me[w]) /\ GoesOn(w, q)

(* The updates of the locals keep the call and the mark. *)
LEMMA MarksKept ==
    ASSUME NEW l \in Locals, NEW x, NEW y, NEW z
    PROVE  /\ CallKept([l EXCEPT !.backend = x], l)
           /\ CallKept([[l EXCEPT !.backend = x] EXCEPT !.client = y, !.onError = z], l)
           /\ CallKept(Forgotten(l), l)
           /\ CallKept([l EXCEPT !.account = x], l)
           /\ CallKept([l EXCEPT !.account = x, !.backend = y], l)
           /\ CallKept([l EXCEPT !.flow = x], l)
           /\ CallKept([l EXCEPT !.found = x], l)
           /\ CallKept([l EXCEPT !.queue = x, !.account = y], l)
           /\ CallKept(l, l)
BY DEF CallKept, SameCall, Locals, Forgotten

(* Every step ends in Proceed. *)
LEMMA WorkProceeds ==
    ASSUME BaseInv, NEW w \in Goroutine, Work(w)
    PROVE  Proceeds(w)
<1>1. me[w] \in Locals
  BY DEF BaseInv, TypeOK
<1>2. ASSUME NEW l, CallKept(l, me[w]), Proceed(w, <<>>, l) \/ Proceed(w, Rest(w), l)
      PROVE  Proceeds(w)
  BY <1>2 DEF Proceeds, GoesOn
<1>3. ASSUME NEW l, CallKept(l, me[w]), NEW h \in LaunchSteps, Proceed(w, <<h>> \o Rest(w), l)
      PROVE  Proceeds(w)
  BY <1>3 DEF Proceeds, GoesOn
<1>4. CallKept(me[w], me[w])
  BY <1>1, MarksKept
<1>5. ASSUME Continue(w) \/ Return(w)
      PROVE  Proceeds(w)
  BY <1>2, <1>4, <1>5 DEF Continue, Return
<1>6. ASSUME NEW b, NEW e, BeginStart(w, b, e)
      PROVE  Proceeds(w)
  <2>1. CASE back[b].ready
    <3>1. Proceed(w, Rest(w), [me[w] EXCEPT !.backend = b])
      BY <1>6, <2>1 DEF BeginStart
    <3> QED
      BY <1>1, <1>2, <3>1, MarksKept
  <2>2. CASE ~back[b].ready
    <3>1. PICK k : Proceed(w, <<"launch">> \o Rest(w), [[me[w] EXCEPT !.backend = b] EXCEPT !.client = k, !.onError = e])
      BY <1>6, <2>2 DEF BeginStart
    <3>2. "launch" \in LaunchSteps
      BY DEF LaunchSteps
    <3> QED
      BY <1>1, <1>3, <3>1, <3>2, MarksKept
  <2> QED
    BY <2>1, <2>2
<1>7. ASSUME NEW s, NEW e, StartAccount(w, s, e)
      PROVE  Proceeds(w)
  <2>1. Continue(w) \/ BeginStart(w, account[pool[me[w].id]].backend, e)
    BY <1>7 DEF StartAccount
  <2> QED
    BY <1>5, <1>6, <2>1
<1>8. ASSUME Sdk(w)
      PROVE  Proceeds(w)
  BY <1>6, <1>8 DEF Sdk
<1>9. ASSUME Launch(w)
      PROVE  Proceeds(w)
  <2>1. \E h \in LaunchSteps : Proceed(w, <<h>> \o Rest(w), me[w])
    BY <1>9 DEF Launch, LaunchSteps
  <2> QED
    BY <1>3, <1>4, <2>1
<1>10. ASSUME MarkReady(w)
       PROVE  Proceeds(w)
  <2>1. Proceed(w, Rest(w), Forgotten(me[w]))
    BY <1>10 DEF MarkReady
  <2> QED
    BY <1>1, <1>2, <2>1, MarksKept
<1>11. ASSUME MarkFailed(w)
       PROVE  Proceeds(w)
  <2> DEFINE err == back[me[w].backend].token = "" /\ me[w].onError # "ignore"
             ends == err /\ me[w].onError = "fail" /\ me[w].op \notin {"logout", "delete"}
             q == IF ends THEN <<>> ELSE IF err /\ me[w].onError = "abort" THEN <<"abort">> ELSE Rest(w)
  <2>1. Proceed(w, q, Forgotten(me[w]))
    BY <1>11 DEF MarkFailed
  <2>2. q = <<>> \/ q = <<"abort">> \/ q = Rest(w)
    OBVIOUS
  <2> HIDE DEF q
  <2> QED
    BY <1>1, <2>1, <2>2, MarksKept DEF Proceeds, GoesOn
<1>12. ASSUME NEW s \in {"enable", "disable"}, NEW e, SetEnabled(w, s, e)
       PROVE  Proceeds(w)
  BY <1>5, <1>12 DEF SetEnabled
<1>13. ASSUME CheckFree(w) \/ Abort(w) \/ RemoveAccount(w) \/ CloseOld(w) \/ Issue(w) \/ Authorize(w)
              \/ StoreToken(w) \/ KeepToken(w) \/ DropState(w) \/ ListAccount(w) \/ InstallFails(w)
       PROVE  Proceeds(w)
  <2>1. Continue(w) \/ Return(w)
    BY <1>13 DEF CheckFree, Abort, RemoveAccount, CloseOld, Issue, Authorize, StoreToken, KeepToken, DropState, ListAccount,
              InstallFails
  <2> QED
    BY <1>5, <2>1
<1>14. ASSUME Install(w)
       PROVE  Proceeds(w)
  <2>1. Proceed(w, Rest(w), [me[w] EXCEPT !.account = Len(account) + 1])
    BY <1>14 DEF Install
  <2> QED
    BY <1>1, <1>2, <2>1, MarksKept
<1>15. ASSUME BuildBackend(w) \/ SwapBackend(w) \/ ClearToken(w)
       PROVE  Proceeds(w)
  <2>1. \E s \in RebuildSteps : At(w, s)
    BY <1>15 DEF BuildBackend, SwapBackend, ClearToken, RebuildSteps
  <2>2. ASSUME NEW q, Proceed(w, q, me[w])
        PROVE  Proceeds(w)
    BY <1>4, <2>1, <2>2 DEF Proceeds, GoesOn
  <2>3. CASE BuildBackend(w)
    <3> DEFINE l == [me[w] EXCEPT !.account = pool[me[w].id], !.backend = Len(back) + 1]
    <3>1. \/ Proceed(w, AfterRebuild(Rest(w)), me[w]) \/ Proceed(w, <<>>, me[w])
          \/ Proceed(w, Rest(w), l)
      BY <2>3 DEF BuildBackend, Return
    <3>2. CallKept(l, me[w])
      BY <1>1, MarksKept
    <3> HIDE DEF l
    <3> QED
      BY <1>2, <2>2, <3>1, <3>2
  <2>4. CASE SwapBackend(w)
    BY <1>5, <2>2, <2>4 DEF SwapBackend
  <2>5. CASE ClearToken(w)
    BY <2>2, <2>5 DEF ClearToken
  <2> QED
    BY <1>15, <2>3, <2>4, <2>5
<1>16. ASSUME Look(w)
       PROVE  Proceeds(w)
  <2> DEFINE l == [me[w] EXCEPT !.flow = states[me[w].id]]
  <2>1. Proceed(w, RefreshAccount, me[w]) \/ Proceed(w, <<>>, me[w]) \/ Proceed(w, Rest(w), l)
    BY <1>16 DEF Look, Return
  <2>2. CallKept(l, me[w])
    BY <1>1, MarksKept
  <2> HIDE DEF l
  <2>3. CASE Proceed(w, RefreshAccount, me[w])
    BY <1>4, <2>3 DEF Proceeds, GoesOn
  <2> QED
    BY <1>2, <1>4, <2>1, <2>2, <2>3
<1>17. ASSUME Exchange(w) \/ Unlist(w)
       PROVE  Proceeds(w)
  <2> DEFINE l == [me[w] EXCEPT !.account = pool[me[w].id]]
  <2>1. Return(w) \/ Proceed(w, Rest(w), l)
    BY <1>17 DEF Exchange, Unlist
  <2>2. CallKept(l, me[w])
    BY <1>1, MarksKept
  <2> HIDE DEF l
  <2> QED
    BY <1>2, <1>5, <2>1, <2>2
<1>18. ASSUME Visit(w)
       PROVE  Proceeds(w)
  <2>1. CASE me[w].queue = {}
    BY <1>5, <1>18, <2>1 DEF Visit
  <2>2. CASE me[w].queue # {}
    <3>1. PICK a \in me[w].queue :
              Proceed(w, IF account[a].enabled THEN <<"sdk", "gather", "visit">> ELSE <<"visit">>,
                      [me[w] EXCEPT !.queue = @ \ {a}, !.account = a])
      BY <1>18, <2>2 DEF Visit
    <3> DEFINE l == [me[w] EXCEPT !.queue = me[w].queue \ {a}, !.account = a]
               q == IF account[a].enabled THEN <<"sdk", "gather", "visit">> ELSE <<"visit">>
    <3>2. Proceed(w, q, l) /\ CallKept(l, me[w])
      BY <1>1, <3>1, MarksKept
    <3>3. me[w].op = "none"
      BY <2>2 DEF BaseInv, GoroutinesOK, LocalOK
    <3> HIDE DEF l, q
    <3> QED
      BY <3>2, <3>3 DEF Proceeds, GoesOn
  <2> QED
    BY <2>1, <2>2
<1>19. ASSUME Gather(w)
       PROVE  Proceeds(w)
  <2> DEFINE l == [me[w] EXCEPT !.found = me[w].found \cup {account[me[w].account].id}]
  <2>1. Continue(w) \/ Proceed(w, Rest(w), l)
    BY <1>19 DEF Gather
  <2>2. CallKept(l, me[w])
    BY <1>1, MarksKept
  <2> HIDE DEF l
  <2> QED
    BY <1>2, <1>5, <2>1, <2>2
<1>20. CASE StartAccount(w, "start", "ignore") \/ StartAccount(w, "addStart", "abort") \/ StartAccount(w, "restart", "fail")
  BY <1>7, <1>20
<1>21. CASE SetEnabled(w, "enable", TRUE) \/ SetEnabled(w, "disable", FALSE)
  BY <1>12, <1>21
<1> QED
  BY <1>8, <1>9, <1>10, <1>11, <1>13, <1>14, <1>15, <1>16, <1>17, <1>18, <1>19, <1>20, <1>21 DEF Work

(* What a step passes on: its call, and the mark of a logout that was alone. *)
Passes(w) ==
    /\ \A v \in Goroutine \ {w} : todo'[v] = todo[v] /\ me'[v] = me[v]
    /\ todo'[w] # <<>> => CallKept(me'[w], me[w])
    /\ \/ cleared' = cleared
       \/ todo'[w] = <<>> /\ me[w].op = "logout" /\ me[w].alone /\ cleared' = cleared \cup {me[w].id}

(* A step passes its call on, and a list without the steps of a rebuild stays  *)
(* one.                                                                        *)
LEMMA WorkPasses ==
    ASSUME BaseInv, NEW w \in Goroutine, Work(w)
    PROVE  /\ Passes(w)
           /\ \A S : /\ todo[w] \in Seq(S) /\ todo[w] # <<>> /\ todo[w][1] \notin RebuildSteps /\ me[w].op # "none"
                     /\ LaunchSteps \cup {"abort", "unlist", "start", "sdk", "list"} \subseteq S
                     => todo'[w] \in Seq(S)
<1>1. PICK q, l : Proceed(w, q, l) /\ CallKept(l, me[w]) /\ GoesOn(w, q)
  BY WorkProceeds DEF Proceeds
<1>2. todo' = [todo EXCEPT ![w] = q] /\ me' = [me EXCEPT ![w] = IF q = <<>> THEN NoLocals ELSE l]
      /\ cleared' = IF q = <<>> /\ me[w].op = "logout" /\ me[w].alone /\ pool[me[w].id] # 0
                    THEN cleared \cup {me[w].id} ELSE cleared
  BY <1>1 DEF Proceed
<1>3. todo \in [Goroutine -> Seq(Step)] /\ me \in [Goroutine -> Locals]
  BY DEF BaseInv, TypeOK
<1>4. todo'[w] = q /\ (q # <<>> => me'[w] = l) /\ \A v \in Goroutine \ {w} : todo'[v] = todo[v] /\ me'[v] = me[v]
  BY <1>2, <1>3
<1>5. Passes(w)
  BY <1>1, <1>2, <1>4 DEF Passes
<1>6. ASSUME NEW S, todo[w] \in Seq(S), todo[w] # <<>>, todo[w][1] \notin RebuildSteps, me[w].op # "none",
             LaunchSteps \cup {"abort", "unlist", "start", "sdk", "list"} \subseteq S
      PROVE  q \in Seq(S)
  <2>1. Rest(w) \in Seq(S) /\ \A h \in LaunchSteps : <<h>> \o Rest(w) \in Seq(S)
    BY <1>6, StepsStay DEF Rest
  <2>2. <<"abort">> \in Seq(S) /\ <<>> \in Seq(S)
    BY <1>6
  <2>3. RefreshAccount \in Seq(S)
    BY <1>6 DEF RefreshAccount
  <2>4. \A s \in RebuildSteps : ~At(w, s)
    BY <1>3, <1>6 DEF At
  <2> QED
    BY <1>1, <1>6, <2>1, <2>2, <2>3, <2>4 DEF GoesOn
<1> QED
  BY <1>4, <1>5, <1>6

-----------------------------------------------------------------------------
(* What a step does to the tokens of accounts, backends and logins. *)

BackendTokens == /\ Len(back) <= Len(back')
                 /\ \A b \in 1..Len(back) : back'[b].token = back[b].token
AccountTokens(w) ==
    \A n \in 1..Len(account) :
        /\ \/ account'[n].token = account[n].token
           \/ At(w, "memory") /\ n = me[w].account
           \/ At(w, "clear") /\ n = pool[me[w].id] /\ account'[n].token = ""
        /\ account'[n].backend = account[n].backend \/ (At(w, "swap") /\ n = me[w].account)
PoolMoves(w) ==
    \A i \in Id : \/ pool'[i] = pool[i]
                  \/ i = me[w].id /\ (At(w, "abort") \/ At(w, "remove")) /\ pool'[i] = 0
                  \/ i = me[w].id /\ At(w, "install")
StateMoves(w) ==
    \A i \in Id : \/ states'[i] = states[i]
                  \/ i = me[w].id /\ At(w, "dropState") /\ states'[i] = 0
                  \/ i = me[w].id /\ At(w, "issue")
TokenEffect(w) == BackendTokens /\ AccountTokens(w) /\ PoolMoves(w) /\ StateMoves(w)

(* Nothing is done to what stays as it is. *)
LEMMA TokensUntouched ==
    ASSUME BaseInv, NEW w
    PROVE  /\ UNCHANGED back => BackendTokens
           /\ UNCHANGED account => AccountTokens(w)
           /\ UNCHANGED pool => PoolMoves(w)
           /\ UNCHANGED states => StateMoves(w)
<1>1. Len(back) \in Nat
  BY Elements DEF BaseInv, TypeOK
<1>2. UNCHANGED back => BackendTokens
  BY <1>1, NoLess DEF BackendTokens
<1> QED
  BY <1>2 DEF AccountTokens, PoolMoves, StateMoves

(* CopilotBackend's steps keep every backend's token. *)
LEMMA BackendTokensKept ==
    ASSUME BaseInv, NEW w \in Goroutine, NEW n \in Nat
    PROVE  /\ ReadyAt(back', back, n) => BackendTokens
           /\ UnreadyAt(back', back, n) => BackendTokens
           /\ Close(w, n) => BackendTokens
           /\ \A e : n \in 1..Len(back) /\ BeginStart(w, n, e) => BackendTokens
           /\ \A x \in BackendRecord : back' = Append(back, x) =>
                 BackendTokens /\ Len(back') = Len(back) + 1 /\ back'[Len(back) + 1] = x
<1>1. back \in Seq(BackendRecord) /\ Len(back) \in Nat
  BY Elements DEF BaseInv, TypeOK
<1>2. ASSUME Len(back') = Len(back), \A b \in 1..Len(back) : back'[b].token = back[b].token
      PROVE  BackendTokens
  BY <1>1, <1>2, NoLess DEF BackendTokens
<1>3. ReadyAt(back', back, n) => BackendTokens
  BY <1>1, <1>2, BackendReady
<1>4. UnreadyAt(back', back, n) => BackendTokens
  BY <1>1, <1>2, BackendUnready
<1>5. Close(w, n) => BackendTokens
  <2>1. Close(w, n) => ClosedAt(back', back, n)
    BY DEF Close, ClosedAt
  <2> QED
    BY <1>1, <1>2, <2>1, BackendClosed
<1>6. ASSUME NEW e, n \in 1..Len(back), BeginStart(w, n, e)
      PROVE  BackendTokens
  <2>1. CASE back[n].ready
    <3>1. UNCHANGED back
      BY <1>6, <2>1 DEF BeginStart
    <3> QED
      BY <3>1, TokensUntouched
  <2>2. CASE ~back[n].ready
    <3>1. back[n] \in BackendRecord
      BY <1>1, <1>6, Elements
    <3>2. back[n].made \in Nat /\ back[n].client \in Nat
      BY <3>1 DEF BackendRecord
    <3>3. \E k \in Nat, m \in Nat : ClientMade(back', back, n, k, m)
      <4> DEFINE made == back[n].client = 0
                 k == IF made THEN back[n].made + 1 ELSE back[n].client
                 m == IF made THEN back[n].made + 1 ELSE back[n].made
      <4>1. back' = [back EXCEPT ![n].client = k, ![n].made = m]
        BY <1>6, <2>2 DEF BeginStart
      <4>2. k \in Nat /\ m \in Nat
        BY <3>2
      <4> QED
        BY <4>1, <4>2 DEF ClientMade
    <3> QED
      BY <1>1, <1>2, <1>6, <3>3, BackendMade
  <2> QED
    BY <2>1, <2>2
<1>7. ASSUME NEW x \in BackendRecord, back' = Append(back, x)
      PROVE  BackendTokens /\ Len(back') = Len(back) + 1 /\ back'[Len(back) + 1] = x
  <2>1. Len(back') = Len(back) + 1 /\ back'[Len(back) + 1] = x /\ \A b \in 1..Len(back) : back'[b] = back[b]
    BY <1>1, <1>7
  <2> QED
    BY <1>1, <2>1 DEF BackendTokens
<1> QED
  BY <1>3, <1>4, <1>5, <1>6, <1>7

(* A backend is built with a token, or with none. *)
LEMMA TokensResolved ==
    ASSUME BaseInv, NEW i \in Id, pool[i] # 0
    PROVE  ResolveToken(i, account[pool[i]].token) \in Tokens
<1>1. account \in Seq(AccountRecord) /\ pool[i] \in 1..Len(account) /\ vault \in [Id -> Tokens]
  BY Owned DEF BaseInv, TypeOK
<1>2. account[pool[i]] \in AccountRecord
  BY <1>1, Elements
<1>3. account[pool[i]].token \in Tokens
  BY <1>2 DEF AccountRecord
<1> QED
  BY <1>1, <1>3, Resolved DEF BaseInv, TypeOK

(* Every step has such an effect. *)
LEMMA WorkTokens ==
    ASSUME BaseInv, NEW w \in Goroutine, Work(w)
    PROVE  TokenEffect(w)
<1>1. /\ account \in Seq(AccountRecord) /\ Len(account) \in Nat /\ back \in Seq(BackendRecord) /\ Len(back) \in Nat
      /\ pool \in [Id -> 0..Len(account)] /\ states \in [Id -> Nat] /\ vault \in [Id -> Tokens] /\ me[w] \in Locals
  BY Elements DEF BaseInv, TypeOK
<1>2. me[w].id \in Id /\ me[w].account \in Nat /\ me[w].backend \in Nat /\ me[w].token \in Tokens /\ "" \in Tokens
  BY <1>1 DEF Locals, Tokens
<1>3. pool[me[w].id] \in 0..Len(account) /\ pool[me[w].id] \in Nat
  <2>1. pool[me[w].id] \in 0..Len(account)
    BY <1>1, <1>2
  <2> QED
    BY <1>1, <2>1
<1>4. \A n \in 1..Len(account) : account[n].backend \in 1..Len(back) /\ account[n].backend \in Nat
  <2>1. \A n \in 1..Len(account) : account[n].backend \in 1..Len(back)
    BY DEF BaseInv, BackendsMade
  <2> QED
    BY <1>1, <2>1
<1>5. ASSUME NEW s, At(w, s), s \in {"sdk", "abort", "close", "swap"}
      PROVE  me[w].account \in 1..Len(account)
  <2>1. todo[w] # <<>> /\ todo[w][1] = s /\ LocalOK(todo[w], me[w], Len(account), Len(back))
    BY <1>5, AtStep DEF BaseInv
  <2>2. me[w].account \in 0..Len(account) /\ me[w].account # 0
    BY <1>5, <2>1 DEF LocalOK, NeedsAccount
  <2> QED
    BY <1>1, <2>2
<1>6. ASSUME UNCHANGED <<account, pool, states>>, BackendTokens
      PROVE  TokenEffect(w)
  BY <1>6, TokensUntouched DEF TokenEffect
<1>7. ASSUME UNCHANGED <<back, pool, states>>, AccountTokens(w)
      PROVE  TokenEffect(w)
  BY <1>7, TokensUntouched DEF TokenEffect
<1>8. ASSUME UNCHANGED <<account, back, pool, states>>
      PROVE  TokenEffect(w)
  BY <1>8, TokensUntouched DEF TokenEffect
<1>9. ASSUME NEW s, NEW e, StartAccount(w, s, e)
      PROVE  TokenEffect(w)
  <2>1. UNCHANGED <<account, pool, states>>
    BY <1>9 DEF StartAccount, accounts, logins
  <2> DEFINE skips == pool[me[w].id] = 0 \/ (s = "addStart" /\ ~account[me[w].account].enabled)
  <2>2. CASE skips
    <3>1. UNCHANGED back
      BY <1>9, <2>2 DEF StartAccount
    <3> QED
      BY <1>8, <2>1, <3>1
  <2>3. CASE ~skips
    <3>1. BeginStart(w, account[pool[me[w].id]].backend, e)
      BY <1>9, <2>3 DEF StartAccount
    <3>2. pool[me[w].id] \in 1..Len(account)
      BY <1>1, <1>3, <2>3
    <3>3. BackendTokens
      BY <1>4, <3>1, <3>2, BackendTokensKept
    <3> QED
      BY <1>6, <2>1, <3>3
  <2> QED
    BY <2>2, <2>3
<1>10. ASSUME Sdk(w)
       PROVE  TokenEffect(w)
  <2>1. UNCHANGED <<account, pool, states>> /\ At(w, "sdk") /\ BeginStart(w, account[me[w].account].backend, "ignore")
    BY <1>10 DEF Sdk, accounts, logins
  <2>2. BackendTokens
    BY <1>4, <1>5, <2>1, BackendTokensKept
  <2> QED
    BY <1>6, <2>1, <2>2
<1>11. ASSUME MarkReady(w) \/ MarkFailed(w)
       PROVE  TokenEffect(w)
  <2>1. UNCHANGED <<account, pool, states>>
    BY <1>11 DEF MarkReady, MarkFailed, accounts, logins
  <2>2. ReadyAt(back', back, me[w].backend) \/ UnreadyAt(back', back, me[w].backend)
    BY <1>11 DEF MarkReady, MarkFailed, ReadyAt, UnreadyAt
  <2>3. BackendTokens
    BY <1>2, <2>2, BackendTokensKept
  <2> QED
    BY <1>6, <2>1, <2>3
<1>12. ASSUME Launch(w) \/ CheckFree(w) \/ Look(w) \/ Exchange(w) \/ Authorize(w) \/ StoreToken(w)
              \/ Unlist(w) \/ ListAccount(w) \/ Visit(w) \/ Gather(w) \/ InstallFails(w)
       PROVE  TokenEffect(w)
  <2>1. UNCHANGED <<account, back, pool, states>>
    BY <1>12 DEF Launch, CheckFree, Look, Exchange, Authorize, StoreToken, Unlist, ListAccount, Visit, Gather, InstallFails,
                 accounts, clients, logins
  <2> QED
    BY <1>8, <2>1
<1>13. ASSUME NEW s \in {"enable", "disable"}, NEW e \in BOOLEAN, SetEnabled(w, s, e)
       PROVE  TokenEffect(w)
  <2>1. UNCHANGED <<back, pool, states>>
    BY <1>13 DEF SetEnabled, clients, logins
  <2>2. UNCHANGED account \/ EnabledSet(account', account, pool[me[w].id])
    BY <1>13 DEF SetEnabled, EnabledSet
  <2>3. AccountTokens(w)
    <3>1. CASE UNCHANGED account
      BY <3>1, TokensUntouched
    <3>2. CASE EnabledSet(account', account, pool[me[w].id])
      <4>1. account \in Seq(AccountRecord) /\ pool[me[w].id] \in Nat
        BY <1>1, <1>3
      <4>2. \A n \in 1..Len(account) :
               account'[n].token = account[n].token /\ account'[n].backend = account[n].backend
        BY <3>2, <4>1, AccountEnabled
      <4> QED
        BY <4>2 DEF AccountTokens
    <3> QED
      BY <2>2, <3>1, <3>2
  <2> QED
    BY <1>7, <2>1, <2>3
<1>14. ASSUME Install(w)
       PROVE  TokenEffect(w)
  <2> DEFINE tok == ResolveToken(me[w].id, NewToken(w))
  <2>0. PICK on \in BOOLEAN : Installs(w, on)
    BY <1>14, InstallIs
  <2>1. /\ At(w, "install") /\ UNCHANGED states /\ back' = Append(back, Backend(tok))
        /\ \E a : account' = Append(account, a)
        /\ pool' = [pool EXCEPT ![me[w].id] = Len(account) + 1]
    BY <2>0 DEF Installs, logins
  <2>2. tok \in Tokens
    BY <1>2, Resolved DEF NewToken, BaseInv, TypeOK
  <2> HIDE DEF tok
  <2>3. Backend(tok) \in BackendRecord
    BY <2>2 DEF Backend, BackendRecord
  <2>4. BackendTokens
    BY <2>1, <2>3, BackendTokensKept
  <2>5. \A n \in 1..Len(account) : account'[n] = account[n]
    BY <1>1, <2>1
  <2>6. AccountTokens(w)
    BY <2>5 DEF AccountTokens
  <2>7. PoolMoves(w)
    BY <1>1, <2>1 DEF PoolMoves
  <2> QED
    BY <2>1, <2>4, <2>6, <2>7, TokensUntouched DEF TokenEffect
<1>15. ASSUME Abort(w)
       PROVE  TokenEffect(w)
  <2>1. At(w, "abort") /\ UNCHANGED <<account, states>> /\ pool' = [pool EXCEPT ![me[w].id] = 0]
        /\ Close(w, account[me[w].account].backend)
    BY <1>15 DEF Abort, logins
  <2>2. BackendTokens
    BY <1>4, <1>5, <2>1, BackendTokensKept
  <2>3. PoolMoves(w)
    BY <1>1, <2>1 DEF PoolMoves
  <2> QED
    BY <2>1, <2>2, <2>3, TokensUntouched DEF TokenEffect
<1>16. ASSUME RemoveAccount(w)
       PROVE  TokenEffect(w)
  <2>1. At(w, "remove") /\ UNCHANGED <<account, states>>
    BY <1>16 DEF RemoveAccount, logins
  <2>2. CASE pool[me[w].id] = 0
    <3>1. UNCHANGED <<back, pool>>
      BY <1>16, <2>2 DEF RemoveAccount, clients
    <3> QED
      BY <1>8, <2>1, <3>1
  <2>3. CASE pool[me[w].id] # 0
    <3>1. pool' = [pool EXCEPT ![me[w].id] = 0] /\ Close(w, account[pool[me[w].id]].backend)
      BY <1>16, <2>3 DEF RemoveAccount
    <3>2. pool[me[w].id] \in 1..Len(account)
      BY <1>1, <1>3, <2>3
    <3>3. BackendTokens
      BY <1>4, <3>1, <3>2, BackendTokensKept
    <3>4. PoolMoves(w)
      BY <1>1, <2>1, <3>1 DEF PoolMoves
    <3> QED
      BY <2>1, <3>3, <3>4, TokensUntouched DEF TokenEffect
  <2> QED
    BY <2>2, <2>3
<1>17. ASSUME BuildBackend(w)
       PROVE  TokenEffect(w)
  <2>1. UNCHANGED <<account, pool, states>>
    BY <1>17 DEF BuildBackend, accounts, logins
  <2>2. UNCHANGED back \/ (pool[me[w].id] # 0 /\ back' = Append(back, Backend(ResolveToken(me[w].id, account[pool[me[w].id]].token))))
    BY <1>17 DEF BuildBackend
  <2>3. pool[me[w].id] # 0 => Backend(ResolveToken(me[w].id, account[pool[me[w].id]].token)) \in BackendRecord
    BY <1>2, TokensResolved DEF Backend, BackendRecord
  <2>4. BackendTokens
    BY <2>2, <2>3, TokensUntouched, BackendTokensKept
  <2> QED
    BY <1>6, <2>1, <2>4
<1>18. ASSUME CloseOld(w)
       PROVE  TokenEffect(w)
  <2>1. UNCHANGED <<account, pool, states>> /\ At(w, "close") /\ Close(w, account[me[w].account].backend)
    BY <1>18 DEF CloseOld, accounts, logins
  <2>2. BackendTokens
    BY <1>4, <1>5, <2>1, BackendTokensKept
  <2> QED
    BY <1>6, <2>1, <2>2
<1>19. ASSUME SwapBackend(w)
       PROVE  TokenEffect(w)
  <2>1. UNCHANGED <<back, pool, states>> /\ At(w, "swap") /\ BackendSet(account', account, me[w].account, me[w].backend)
    BY <1>19 DEF SwapBackend, clients, logins, BackendSet
  <2>2. \A i \in 1..Len(account) : /\ account'[i].token = account[i].token
                                   /\ i # me[w].account => account'[i].backend = account[i].backend
    <3>1. BackendSet(account', account, me[w].account, me[w].backend) /\ account \in Seq(AccountRecord)
          /\ me[w].account \in Nat /\ me[w].backend \in Nat
      BY <1>1, <1>2, <2>1
    <3>2. \A i \in 1..Len(account) : account'[i].token = account[i].token
      BY ONLY <3>1, AccountBackend
    <3>3. \A i \in 1..Len(account) : account'[i].backend = IF i = me[w].account THEN me[w].backend ELSE account[i].backend
      BY ONLY <3>1, AccountBackend
    <3> QED
      BY <3>2, <3>3
  <2>3. AccountTokens(w)
    BY <2>1, <2>2 DEF AccountTokens
  <2> QED
    BY <1>7, <2>1, <2>3
<1>20. ASSUME Issue(w)
       PROVE  TokenEffect(w)
  <2>1. At(w, "issue") /\ UNCHANGED <<account, back, pool>>
        /\ (UNCHANGED states \/ states' = [states EXCEPT ![me[w].id] = Len(flow) + 1])
    BY <1>20 DEF Issue, accounts, clients
  <2>2. StateMoves(w)
    BY <1>1, <2>1 DEF StateMoves
  <2> QED
    BY <2>1, <2>2, TokensUntouched DEF TokenEffect
<1>21. ASSUME DropState(w)
       PROVE  TokenEffect(w)
  <2>1. At(w, "dropState") /\ UNCHANGED <<account, back, pool>> /\ states' = [states EXCEPT ![me[w].id] = 0]
    BY <1>21 DEF DropState, accounts, clients
  <2>2. StateMoves(w)
    BY <1>1, <2>1 DEF StateMoves
  <2> QED
    BY <2>1, <2>2, TokensUntouched DEF TokenEffect
<1>22. ASSUME KeepToken(w)
       PROVE  TokenEffect(w)
  <2>1. At(w, "memory") /\ UNCHANGED <<back, pool, states>> /\ TokenSet(account', account, me[w].account, me[w].token)
    BY <1>22 DEF KeepToken, clients, logins, TokenSet
  <2>2. \A i \in 1..Len(account) : /\ account'[i].backend = account[i].backend
                                   /\ i # me[w].account => account'[i].token = account[i].token
    <3>1. TokenSet(account', account, me[w].account, me[w].token) /\ account \in Seq(AccountRecord)
          /\ me[w].account \in Nat /\ me[w].token \in Tokens
      BY <1>1, <1>2, <2>1
    <3>2. \A i \in 1..Len(account) : account'[i].backend = account[i].backend
      BY ONLY <3>1, AccountToken
    <3>3. \A i \in 1..Len(account) : account'[i].token = IF i = me[w].account THEN me[w].token ELSE account[i].token
      BY ONLY <3>1, AccountToken
    <3> QED
      BY <3>2, <3>3
  <2>3. AccountTokens(w)
    BY <2>1, <2>2 DEF AccountTokens
  <2> QED
    BY <1>7, <2>1, <2>3
<1>23. ASSUME ClearToken(w)
       PROVE  TokenEffect(w)
  <2>1. At(w, "clear") /\ UNCHANGED <<back, pool, states>>
        /\ (UNCHANGED account \/ TokenSet(account', account, pool[me[w].id], ""))
    BY <1>23 DEF ClearToken, clients, logins, TokenSet
  <2>2. AccountTokens(w)
    <3>1. CASE UNCHANGED account
      BY <3>1, TokensUntouched
    <3>2. CASE TokenSet(account', account, pool[me[w].id], "")
      <4> DEFINE none == ""
                 n == pool[me[w].id]
      <4>2. none \in Tokens /\ n \in Nat /\ TokenSet(account', account, n, none)
        BY <1>2, <1>3, <3>2
      <4> HIDE DEF none, n
      <4>3. \A i \in 1..Len(account) : /\ account'[i].backend = account[i].backend
                                       /\ account'[i].token = IF i = n THEN none ELSE account[i].token
        BY ONLY <1>1, <4>2, AccountToken
      <4>1. \A i \in 1..Len(account) :
                account'[i].backend = account[i].backend
                /\ account'[i].token = IF i = pool[me[w].id] THEN "" ELSE account[i].token
        BY <4>3 DEF none, n
      <4> QED
        BY <2>1, <4>1 DEF AccountTokens
    <3> QED
      BY <2>1, <3>1, <3>2
  <2> QED
    BY <1>7, <2>1, <2>2
<1>24. CASE StartAccount(w, "start", "ignore") \/ StartAccount(w, "addStart", "abort") \/ StartAccount(w, "restart", "fail")
  BY <1>9, <1>24
<1>25. CASE SetEnabled(w, "enable", TRUE) \/ SetEnabled(w, "disable", FALSE)
  BY <1>13, <1>25
<1> QED
  BY <1>10, <1>11, <1>12, <1>14, <1>15, <1>16, <1>17, <1>18, <1>19, <1>20, <1>21, <1>22, <1>23, <1>24, <1>25 DEF Work

-----------------------------------------------------------------------------
(* Nothing happens to the token and the login of an id, *)
Exact(i) ==
    /\ pool'[i] = pool[i] /\ states'[i] = states[i]
    /\ pool[i] # 0 => /\ account'[pool[i]].token = account[pool[i]].token
                      /\ account'[pool[i]].backend = account[pool[i]].backend
                      /\ back'[account[pool[i]].backend].token = back[account[pool[i]].backend].token
(* or they are only taken away. *)
Mild(i) ==
    /\ pool'[i] \in {0, pool[i]} /\ states'[i] \in {0, states[i]}
    /\ pool[i] # 0 => /\ account'[pool[i]].token \in {"", account[pool[i]].token}
                      /\ account'[pool[i]].backend = account[pool[i]].backend
                      /\ back'[account[pool[i]].backend].token = back[account[pool[i]].backend].token

(* A handler is at no step but its own, and at one at a time. *)
LEMMA OwnStep ==
    ASSUME BaseInv, NEW w \in Goroutine, NEW s, At(w, s)
    PROVE  /\ s \in StepsOf(me[w].op) /\ s = Head(todo[w]) /\ s = todo[w][1]
           /\ todo[w] \in Seq(Step) /\ todo[w] # <<>> /\ Shaped(todo[w])
<1>1. todo[w] # <<>> /\ todo[w][1] = s /\ todo[w] \in Seq(Step) /\ LocalOK(todo[w], me[w], Len(account), Len(back))
  BY AtStep DEF BaseInv
<1>2. todo[w] \in Seq(StepsOf(me[w].op)) /\ Shaped(todo[w])
  BY <1>1 DEF LocalOK
<1> QED
  BY <1>1, <1>2, StepsStay DEF At

(* A step of another id, or one that is not about tokens, does nothing to them.*)
LEMMA Elsewhere ==
    ASSUME BaseInv, IdsMatch, NEW w \in Goroutine, TokenEffect(w), NEW i \in Id,
           me[w].op \notin TokenOps \/ me[w].id # i
    PROVE  Exact(i)
<1>1. \A s \in {"memory", "clear", "swap", "abort", "remove", "install", "dropState", "issue"} :
          At(w, s) => me[w].op \in TokenOps /\ me[w].op # "none" /\ me[w].id # i
  <2> SUFFICES ASSUME NEW s \in {"memory", "clear", "swap", "abort", "remove", "install", "dropState", "issue"}, At(w, s)
               PROVE  me[w].op \in TokenOps /\ me[w].op # "none" /\ me[w].id # i
    OBVIOUS
  <2>1. s \in StepsOf(me[w].op)
    BY OwnStep
  <2>2. me[w].op \in TokenOps
    BY <2>1 DEF StepsOf, TokenOps
  <2> QED
    BY <2>2 DEF TokenOps
<1>2. pool'[i] = pool[i] /\ states'[i] = states[i]
  BY <1>1 DEF TokenEffect, PoolMoves, StateMoves
<1>3. ASSUME pool[i] # 0
      PROVE  /\ account'[pool[i]].token = account[pool[i]].token
             /\ account'[pool[i]].backend = account[pool[i]].backend
             /\ back'[account[pool[i]].backend].token = back[account[pool[i]].backend].token
  <2>1. pool[i] \in 1..Len(account) /\ account[pool[i]].backend \in 1..Len(back) /\ account[pool[i]].id = i
    BY <1>3, Owned DEF IdsMatch
  <2>2. At(w, "memory") \/ At(w, "swap") => pool[i] # me[w].account
    BY <1>1, <1>3, <2>1 DEF IdsMatch
  <2>3. At(w, "clear") => pool[i] # pool[me[w].id]
    <3>1. me[w].id \in Id
      BY DEF BaseInv, TypeOK, Locals
    <3> QED
      BY <1>1, <1>3, <2>1, <3>1 DEF IdsMatch
  <2> QED
    BY <2>1, <2>2, <2>3 DEF TokenEffect, BackendTokens, AccountTokens
<1> QED
  BY <1>2, <1>3 DEF Exact

(* Nor does a step that brings nothing, except to take away. *)
LEMMA TakesAway ==
    ASSUME BaseInv, NEW w \in Goroutine, TokenEffect(w), NEW i \in Id,
           ~At(w, "memory"), ~At(w, "swap"), ~At(w, "install"), ~At(w, "issue")
    PROVE  Mild(i)
<1>1. pool'[i] \in {0, pool[i]} /\ states'[i] \in {0, states[i]}
  BY DEF TokenEffect, PoolMoves, StateMoves
<1>2. ASSUME pool[i] # 0
      PROVE  /\ account'[pool[i]].token \in {"", account[pool[i]].token}
             /\ account'[pool[i]].backend = account[pool[i]].backend
             /\ back'[account[pool[i]].backend].token = back[account[pool[i]].backend].token
  <2>1. pool[i] \in 1..Len(account) /\ account[pool[i]].backend \in 1..Len(back)
    BY <1>2, Owned
  <2> QED
    BY <2>1 DEF TokenEffect, BackendTokens, AccountTokens
<1> QED
  BY <1>1, <1>2 DEF Mild

(* What is gone stays gone. *)
LEMMA GoneStays ==
    ASSUME NEW i \in Id, Gone(i), Exact(i) \/ Mild(i), UNCHANGED scene
    PROVE  Gone(i)'
<1>1. Mild(i)
  BY DEF Exact, Mild
<1> QED
  BY <1>1 DEF Mild, Gone, Loggedout, Tokenless, Asking, AsksVault, Standing, Vaulted

(* A logout is where it was when others do nothing to its id. *)
LEMMA StageStays ==
    ASSUME BaseInv, NEW w \in Worker, Stage(todo[w], me[w]), Exact(me[w].id), BackendTokens, UNCHANGED scene,
           todo'[w] = todo[w], me'[w] = me[w]
    PROVE  Stage(todo[w], me[w])'
<1> DEFINE i == me[w].id
           q == todo[w]
           l == me[w]
<1>1. (Loggedout(i) <=> Loggedout(i)') /\ (Tokenless(i) <=> Tokenless(i)')
  BY DEF Exact, Stage, Loggedout, Tokenless, Asking, AsksVault, Standing, Vaulted
<1>2. Ahead(q, 2) \/ Ahead(q, 1) => l.backend \in 1..Len(back)
  <2>1. w \in Goroutine /\ q \in Seq(Step)
    BY DEF Goroutine, BaseInv, TypeOK
  <2>2. Ahead(q, 2) \/ Ahead(q, 1) => Rebuilds(q)
    BY <2>1, AheadTail DEF Rebuilds
  <2> QED
    BY <2>1, <2>2 DEF BaseInv, GoroutinesOK, LocalOK
<1>3. Ahead(q, 2) \/ Ahead(q, 1) => back'[l.backend].token = back[l.backend].token
  BY <1>2 DEF BackendTokens
<1>4. pool'[i] = pool[i] /\ states'[i] = states[i] /\ pool[i] # 0
  BY DEF Exact, Stage
<1>5. q' = q /\ l' = l /\ i' = i
  OBVIOUS
<1>6. ((i \notin Asking)' <=> i \notin Asking) /\ Standing(i)' = Standing(i)
  BY DEF Asking, AsksVault, Standing, Vaulted
<1> HIDE DEF i, q, l
<1>7. Stage(q, l)
  BY DEF q, l
<1>8. l.id = i
  BY DEF i, l
<1>9. Stage(q, l)'
  BY <1>1, <1>3, <1>4, <1>5, <1>6, <1>7, <1>8 DEF Stage, Ahead, AheadDrop
<1> QED
  BY <1>9 DEF q, l

(* The one action of each of these steps. *)
LEMMA TakesStep ==
    ASSUME NEW w, Work(w)
    PROVE  /\ At(w, "clear") => ClearToken(w)
           /\ At(w, "dropState") => DropState(w)
           /\ At(w, "build") => BuildBackend(w)
           /\ At(w, "close") => CloseOld(w)
           /\ At(w, "swap") => SwapBackend(w)
           /\ At(w, "look") => Look(w)
<1> DEFINE Special == {"clear", "dropState", "build", "close", "swap", "look"}
           Elsewhere0 == \E s : s \notin Special /\ At(w, s)
<1>1. CASE \/ StartAccount(w, "start", "ignore") \/ StartAccount(w, "addStart", "abort")
           \/ StartAccount(w, "restart", "fail") \/ Sdk(w) \/ Launch(w) \/ MarkReady(w) \/ MarkFailed(w)
  <2>1. Elsewhere0
    BY <1>1 DEF StartAccount, Sdk, Launch, MarkReady, MarkFailed
  <2> QED
    BY <2>1 DEF At
<1>2. CASE SetEnabled(w, "enable", TRUE) \/ SetEnabled(w, "disable", FALSE) \/ CheckFree(w) \/ Install(w)
           \/ InstallFails(w) \/ Abort(w) \/ RemoveAccount(w) \/ Issue(w) \/ Exchange(w) \/ Authorize(w)
  <2>1. Elsewhere0
    BY <1>2 DEF SetEnabled, CheckFree, Install, InstallFails, Abort, RemoveAccount, Issue, Exchange, Authorize
  <2> QED
    BY <2>1 DEF At
<1>3. CASE StoreToken(w) \/ KeepToken(w) \/ Unlist(w) \/ ListAccount(w) \/ Visit(w) \/ Gather(w)
  <2>1. Elsewhere0
    BY <1>3 DEF StoreToken, KeepToken, Unlist, ListAccount, Visit, Gather
  <2> QED
    BY <2>1 DEF At
<1>4. CASE BuildBackend(w)
  <2>1. At(w, "build")
    BY <1>4 DEF BuildBackend
  <2> QED
    BY <1>4, <2>1 DEF At
<1>5. CASE CloseOld(w)
  <2>1. At(w, "close")
    BY <1>5 DEF CloseOld
  <2> QED
    BY <1>5, <2>1 DEF At
<1>6. CASE SwapBackend(w)
  <2>1. At(w, "swap")
    BY <1>6 DEF SwapBackend
  <2> QED
    BY <1>6, <2>1 DEF At
<1>7. CASE Look(w)
  <2>1. At(w, "look")
    BY <1>7 DEF Look
  <2> QED
    BY <1>7, <2>1 DEF At
<1>8. CASE ClearToken(w)
  <2>1. At(w, "clear")
    BY <1>8 DEF ClearToken
  <2> QED
    BY <1>8, <2>1 DEF At
<1>9. CASE DropState(w)
  <2>1. At(w, "dropState")
    BY <1>9 DEF DropState
  <2> QED
    BY <1>9, <2>1 DEF At
<1> QED
  BY <1>1, <1>2, <1>3, <1>4, <1>5, <1>6, <1>7, <1>8, <1>9 DEF Work

(* A logout that is alone goes through its stages, and at its end the token    *)
(* and the login are gone.                                                     *)
LEMMA StageMoves ==
    ASSUME BaseInv, IdsMatch, NEW w \in Worker, Work(w), UNCHANGED scene,
           me[w].op = "logout", todo[w] # <<>>, Stage(todo[w], me[w]), NEW i, i = me[w].id
    PROVE  IF todo'[w] = <<>> THEN Gone(i)' ELSE Stage(todo[w], me[w])'
<1> DEFINE q == todo[w]
           b == me[w].backend
<1>1. w \in Goroutine /\ i \in Id /\ q \in Seq(Step) /\ me[w] \in Locals
  BY DEF Goroutine, BaseInv, TypeOK, Locals
<1>2. TokenEffect(w) /\ Passes(w)
  BY <1>1, WorkTokens, WorkPasses
<1>3. todo'[w] # <<>> => me'[w].id = i
  BY <1>2 DEF Passes, CallKept, SameCall
<1>4. \A s : At(w, s) => s \in StepsOf("logout") /\ s = q[1]
  BY <1>1, OwnStep
<1>5. ~At(w, "install") /\ ~At(w, "abort") /\ ~At(w, "remove") /\ ~At(w, "memory") /\ ~At(w, "issue")
  BY <1>4 DEF StepsOf
<1>6. At(w, q[1]) /\ Rest(w) = Tail(q) /\ Tail(q) \in Seq(Step)
  BY <1>1 DEF At, Rest
<1>7. pool[i] # 0 /\ pool[i] \in 1..Len(account) /\ account[pool[i]].backend \in 1..Len(back)
      /\ account[pool[i]].id = i /\ Len(back) \in Nat /\ Len(account) \in Nat
  BY <1>1, Owned DEF IdsMatch, Stage
<1>8. pool'[i] = pool[i]
  BY <1>1, <1>2, <1>5 DEF TokenEffect, PoolMoves
<1>9. Loggedout(i) => Loggedout(i)'
  BY <1>2, <1>5, <1>7, <1>8 DEF Loggedout, TokenEffect, AccountTokens
<1>10. states[i] = 0 => states'[i] = 0
  BY <1>1, <1>2, <1>5 DEF TokenEffect, StateMoves
<1>11. ~At(w, "swap") /\ Tokenless(i) => Tokenless(i)'
  BY <1>2, <1>5, <1>7, <1>8 DEF Tokenless, TokenEffect, AccountTokens, BackendTokens, Asking, AsksVault, Standing, Vaulted
<1>12. ((i \notin Asking)' <=> i \notin Asking) /\ Standing(i)' = Standing(i)
  BY DEF Asking, AsksVault, Standing, Vaulted
<1>13. q[1] \in RebuildSteps =>
            AfterRebuild(Tail(q)) \in Seq(Settled) /\ AheadDrop(<<"dropState">> \o AfterRebuild(Tail(q)))
  <2>1. Shaped(q)
    BY <1>1, <1>6, OwnStep
  <2> QED
    BY <1>1, <2>1, RebuiltIsCalm
<1> DEFINE Done == IF todo'[w] = <<>> THEN Gone(i)' ELSE Stage(todo[w], me[w])'
(* The end of every stage. *)
<1>14. ASSUME todo'[w] \in Seq(Settled), Loggedout(i)', Tokenless(i)', states'[i] = 0
       PROVE  Done
  <2>1. todo'[w] \in Seq(Step)
    BY <1>14 DEF Settled
  <2>2. Ahead(todo'[w], 0)
    BY <1>14, <2>1, AheadSettled
  <2>3. CASE todo'[w] = <<>>
    BY <1>14, <2>3 DEF Gone
  <2>4. CASE todo'[w] # <<>>
    BY <1>3, <1>7, <1>8, <1>14, <2>2, <2>4 DEF Stage, Ahead
  <2> QED
    BY <2>3, <2>4
<1>15. ASSUME NEW t, NEW l, Proceed(w, t, l)
       PROVE  todo'[w] = t /\ (t # <<>> => me'[w] = l)
  BY <1>1, <1>15, Moves
<1> QED
  <2>1. CASE Ahead(q, 5) /\ (Loggedout(i) => Tokenless(i))
    <3>1. q[1] = "clear" /\ Ahead(Tail(q), 4) /\ Tail(q) # <<>>
      BY <1>1, <2>1, AheadTail
    <3>2. ClearToken(w) /\ q[1] \in RebuildSteps /\ ~At(w, "swap")
      BY <1>4, <1>6, <3>1, TakesStep DEF RebuildSteps
    <3>3. /\ account' = [account EXCEPT ![pool[i]].token = ""]
          /\ Proceed(w, IF account[pool[i]].token # "" THEN Tail(q) ELSE <<"dropState">> \o AfterRebuild(Tail(q)), me[w])
      BY <1>6, <1>7, <3>2 DEF ClearToken
    <3>4. Loggedout(i)'
      <4> DEFINE n == pool[i]
                 none == ""
      <4>1. account \in Seq(AccountRecord) /\ n \in Nat /\ n \in 1..Len(account) /\ none \in Tokens
            /\ TokenSet(account', account, n, none)
        <5>1. account \in Seq(AccountRecord) /\ none \in Tokens
          BY DEF BaseInv, TypeOK, Tokens
        <5>2. n \in 1..Len(account) /\ TokenSet(account', account, n, none)
          BY <1>7, <3>3 DEF TokenSet
        <5> HIDE DEF n, none
        <5>3. n \in Nat
          BY <1>7, <5>2
        <5> QED
          BY <5>1, <5>2, <5>3
      <4> HIDE DEF n, none
      <4>2. account'[n].token = none
        BY <4>1, AccountToken
      <4> QED
        BY <1>8, <4>2 DEF Loggedout, n, none
    <3>5. CASE account[pool[i]].token # ""
      <4>1. todo'[w] = Tail(q) /\ Tail(q) # <<>>
        BY <1>15, <3>1, <3>3, <3>5
      <4> QED
        BY <1>3, <1>7, <1>8, <3>1, <3>4, <4>1 DEF Stage, Ahead
    <3>6. CASE account[pool[i]].token = ""
      <4>1. todo'[w] = <<"dropState">> \o AfterRebuild(Tail(q))
        BY <1>15, <3>3, <3>6
      <4>2. AheadDrop(todo'[w]) /\ todo'[w] # <<>>
        BY <1>13, <3>2, <4>1 DEF AheadDrop
      <4>3. Tokenless(i)'
        BY <1>11, <2>1, <3>2, <3>6 DEF Loggedout
      <4> QED
        BY <1>3, <1>7, <1>8, <3>4, <4>2, <4>3 DEF Stage, AheadDrop
    <3> QED
      BY <3>5, <3>6
  <2>2. CASE Ahead(q, 4) /\ Loggedout(i)
    <3>1. q[1] = "dropState" /\ Ahead(Tail(q), 3) /\ Tail(q) # <<>>
      BY <1>1, <1>6, <2>2, AheadTail
    <3>2. DropState(w)
      BY <1>6, <3>1, TakesStep
    <3>3. states'[i] = 0 /\ todo'[w] = Tail(q)
      BY <1>1, <1>6, <1>15, <3>2 DEF DropState, Continue, BaseInv, TypeOK
    <3> QED
      <4>1. todo'[w] # <<>> /\ me'[w].id = i
        BY <1>3, <3>1, <3>3
      <4>2. Ahead(todo'[w], 3)
        BY <3>1, <3>3
      <4>3. Loggedout(i)' /\ pool'[i] # 0
        BY <1>7, <1>8, <1>9, <2>2
      <4> QED
        BY <3>3, <4>1, <4>2, <4>3 DEF Stage, Ahead
  <2>3. CASE AheadDrop(q) /\ Loggedout(i) /\ Tokenless(i)
    <3>1. q[1] = "dropState" /\ Tail(q) \in Seq(Settled)
      BY <1>1, <2>3, AheadSettled DEF AheadDrop
    <3>2. DropState(w) /\ ~At(w, "swap")
      BY <1>4, <1>6, <3>1, TakesStep
    <3>3. states'[i] = 0 /\ todo'[w] = Tail(q)
      BY <1>1, <1>6, <1>15, <3>2 DEF DropState, Continue, BaseInv, TypeOK
    <3> QED
      BY <1>9, <1>11, <1>14, <2>3, <3>1, <3>2, <3>3
  <2>4. CASE Ahead(q, 3) /\ Loggedout(i) /\ states[i] = 0
    <3>1. q[1] = "build" /\ Ahead(Tail(q), 2) /\ Tail(q) # <<>>
      BY <1>1, <1>6, <2>4, AheadTail
    <3>2. BuildBackend(w) /\ ~At(w, "swap") /\ q[1] \in RebuildSteps
      BY <1>4, <1>6, <3>1, TakesStep DEF RebuildSteps
    <3> DEFINE l == [me[w] EXCEPT !.account = pool[i], !.backend = Len(back) + 1]
               tok == ResolveToken(i, account[pool[i]].token)
    <3>3. \/ back' = Append(back, Backend(tok)) /\ Proceed(w, Tail(q), l)
          \/ AsksVault(i, account[pool[i]].token) /\ Proceed(w, AfterRebuild(Tail(q)), me[w])
      BY <1>6, <1>7, <3>2 DEF BuildBackend
    <3>4. l.account = pool[i] /\ l.backend = Len(back) + 1 /\ l.id = i
      BY <1>1 DEF Locals
    <3> HIDE DEF l
    <3>5. CASE back' = Append(back, Backend(tok)) /\ Proceed(w, Tail(q), l)
      <4>1. todo'[w] = Tail(q) /\ me'[w] = l
        BY <1>15, <3>1, <3>5
      <4>2. back'[Len(back) + 1] = Backend(tok)
        BY <1>7, <3>5 DEF BaseInv, TypeOK
      <4>3. i \notin Asking => tok = Standing(i)
        BY <1>1, <2>4 DEF ResolveToken, Loggedout, Asking, AsksVault, Standing
      <4>4. i \notin Asking => back'[Len(back) + 1].token = Standing(i)
        <5>1. Backend(tok).token = tok
          BY DEF Backend
        <5> QED
          BY <4>2, <4>3, <5>1
      <4> QED
        BY <1>7, <1>8, <1>9, <1>10, <1>12, <2>4, <3>1, <3>4, <4>1, <4>4 DEF Stage, Ahead
    <3>6. CASE AsksVault(i, account[pool[i]].token) /\ Proceed(w, AfterRebuild(Tail(q)), me[w])
      <4>0. i \in Asking' /\ i \in Asking
        BY <1>1, <1>12, <2>4, <3>6 DEF Asking, Loggedout
      <4>1. todo'[w] \in Seq(Settled)
        BY <1>13, <1>15, <3>2, <3>6
      <4>2. Tokenless(i)'
        BY <4>0 DEF Tokenless
      <4> QED
        BY <1>9, <1>10, <1>14, <2>4, <4>1, <4>2
    <3> QED
      BY <3>3, <3>5, <3>6
  <2>5. CASE Ahead(q, 2) /\ Loggedout(i) /\ states[i] = 0 /\ me[w].account = pool[i] /\ (i \notin Asking => back[b].token = Standing(i))
    <3>1. q[1] = "close" /\ Ahead(Tail(q), 1) /\ Tail(q) # <<>>
      <4>1. Ahead(q, 2)
        BY <2>5
      <4> QED
        BY ONLY <1>1, <4>1, AheadTail
    <3>2. CloseOld(w)
      BY <1>6, <3>1, TakesStep
    <3>3. todo'[w] = Tail(q) /\ me'[w] = me[w]
      BY <1>6, <1>15, <3>1, <3>2 DEF CloseOld, Continue
    <3>4. b \in 1..Len(back)
      BY <1>1, <3>1 DEF BaseInv, GoroutinesOK, LocalOK, Rebuilds
    <3>5. back'[b].token = back[b].token
      BY <1>2, <3>4 DEF TokenEffect, BackendTokens
    <3>6. Loggedout(i)' /\ states'[i] = 0 /\ pool'[i] # 0
      BY <1>7, <1>8, <1>9, <1>10, <2>5
    <3>7. me'[w].id = i /\ me'[w].account = pool'[i] /\ ((i \notin Asking)' => back'[me'[w].backend].token = Standing(i)')
      BY <1>8, <1>12, <2>5, <3>3, <3>5
    <3>8. Ahead(todo'[w], 1) /\ todo'[w] # <<>>
      BY <3>1, <3>3
    <3> QED
      BY <3>6, <3>7, <3>8 DEF Stage, Ahead
  <2>6. CASE Ahead(q, 1) /\ Loggedout(i) /\ states[i] = 0 /\ me[w].account = pool[i] /\ (i \notin Asking => back[b].token = Standing(i))
    <3>1. q[1] = "swap" /\ Ahead(Tail(q), 0)
      <4>1. Ahead(q, 1)
        BY <2>6
      <4> QED
        BY ONLY <1>1, <4>1, AheadTail
    <3>2. SwapBackend(w) /\ q[1] \in RebuildSteps
      BY <1>6, <3>1, TakesStep DEF RebuildSteps
    <3>3. /\ BackendSet(account', account, me[w].account, b) /\ UNCHANGED back
          /\ Proceed(w, Tail(q), me[w]) \/ Proceed(w, AfterRebuild(Tail(q)), me[w])
      BY <1>6, <3>2 DEF SwapBackend, Continue, clients, BackendSet
    <3>4. account'[pool[i]].backend = b
      <4> DEFINE n == pool[i]
      <4>1. account \in Seq(AccountRecord) /\ n \in Nat /\ n \in 1..Len(account) /\ b \in Nat /\ BackendSet(account', account, n, b)
        BY <1>1, <1>7, <2>6, <3>3 DEF BaseInv, TypeOK, Locals
      <4> HIDE DEF n, b
      <4>2. \A k \in 1..Len(account) : account'[k].backend = IF k = n THEN b ELSE account[k].backend
        BY ONLY <4>1, AccountBackend
      <4> QED
        BY <4>1, <4>2 DEF n
    <3>5. Tokenless(i)'
      BY <1>8, <1>12, <2>6, <3>3, <3>4 DEF Tokenless
    <3>6. todo'[w] \in Seq(Settled)
      BY <1>6, <1>13, <1>15, <3>1, <3>2, <3>3, AheadSettled
    <3> QED
      BY <1>9, <1>10, <1>14, <2>6, <3>5, <3>6
  <2>7. CASE Ahead(q, 0) /\ Loggedout(i) /\ Tokenless(i) /\ states[i] = 0
    <3>1. q \in Seq(Settled)
      BY <1>1, <2>7, AheadSettled
    <3>2. q[1] \in Settled
      BY <3>1, StepsStay
    <3>3. q[1] \notin RebuildSteps /\ ~At(w, "swap")
      BY <1>4, <3>2 DEF Settled, GiveUp, RebuildSteps
    <3>4. LaunchSteps \cup {"abort", "unlist", "start", "sdk", "list"} \subseteq Settled
      BY DEF LaunchSteps, Settled, GiveUp, Step
    <3>5. todo'[w] \in Seq(Settled)
      BY <1>1, <3>1, <3>3, <3>4, WorkPasses
    <3> QED
      BY <1>9, <1>10, <1>11, <1>14, <2>7, <3>3, <3>5
  <2> QED
    BY <2>1, <2>2, <2>3, <2>4, <2>5, <2>6, <2>7 DEF Stage

(* A token operation of a logged out id brings nothing back: it finds nothing  *)
(* to clear, nothing to poll, and has no other step that could.                *)
LEMMA SpentMoves ==
    ASSUME BaseInv, NEW w \in Worker, Work(w), NEW i, i = me[w].id, Gone(i), me[w].op \in TokenOps,
           todo[w] # <<>>, Spent(todo[w])
    PROVE  Spent(todo'[w])
<1> DEFINE q == todo[w]
           Tame == Step \ Handing
<1>1. w \in Goroutine /\ q \in Seq(Step) /\ me[w] \in Locals
  BY DEF Goroutine, BaseInv, TypeOK
<1>2. At(w, q[1]) /\ Rest(w) = Tail(q)
  BY <1>1 DEF At, Rest
<1>3. Shaped(q)
  BY <1>1, <1>2, OwnStep
<1>4. ASSUME NEW t, NEW l, Proceed(w, t, l)
      PROVE  todo'[w] = t
  BY <1>1, <1>4, Moves
<1>5. CASE q \in Seq(Tame)
  <2>1. q[1] \in Tame
    BY <1>5, StepsStay
  <2>2. q[1] \notin RebuildSteps /\ me[w].op # "none"
    BY <2>1 DEF Handing, RebuildSteps, TokenOps
  <2>3. LaunchSteps \cup {"abort", "unlist", "start", "sdk", "list"} \subseteq Tame
    BY DEF LaunchSteps, Handing, Step
  <2>4. todo'[w] \in Seq(Tame)
    <3> HIDE DEF Tame
    <3> QED
      BY <1>1, <1>5, <2>2, <2>3, WorkPasses
  <2> QED
    BY <2>4 DEF Spent
<1>6. CASE q[1] = "clear"
  <2>1. ClearToken(w) /\ q[1] \in RebuildSteps
    BY <1>2, <1>6, TakesStep DEF RebuildSteps
  <2>2. AfterRebuild(Tail(q)) \in Seq(Tame) /\ <<"dropState">> \o AfterRebuild(Tail(q)) \in Seq(Tame)
    BY <1>1, <1>3, <2>1, RebuiltIsCalm
  <2>3. Proceed(w, AfterRebuild(Tail(q)), me[w]) \/ Proceed(w, <<"dropState">> \o AfterRebuild(Tail(q)), me[w])
    <3>1. CASE pool[i] = 0
      BY <1>2, <2>1, <3>1 DEF ClearToken
    <3>2. CASE pool[i] # 0
      <4>1. account[pool[i]].token = ""
        BY <3>2 DEF Gone, Loggedout
      <4> QED
        BY <1>2, <2>1, <3>2, <4>1 DEF ClearToken
    <3> QED
      BY <3>1, <3>2
  <2>4. todo'[w] \in Seq(Tame)
    BY <1>4, <2>2, <2>3
  <2> QED
    BY <2>4 DEF Spent
<1>7. CASE q[1] = "look"
  <2>1. Look(w)
    BY <1>2, <1>7, TakesStep
  <2>2. states[i] = 0
    BY DEF Gone
  <2>3. Return(w)
    BY <2>1, <2>2 DEF Look
  <2>4. todo'[w] = <<>>
    BY <1>4, <2>3 DEF Return
  <2>5. <<>> \in Seq(Step \ Handing)
    OBVIOUS
  <2> QED
    BY <2>4, <2>5 DEF Spent
<1> QED
  BY <1>5, <1>6, <1>7 DEF Spent

(* A spent list is not at a step that brings a token. *)
LEMMA SpentIsNowhere ==
    ASSUME BaseInv, NEW w \in Goroutine, Spent(todo[w])
    PROVE  ~At(w, "memory") /\ ~At(w, "swap") /\ ~At(w, "install") /\ ~At(w, "issue")
<1> SUFFICES ASSUME NEW s \in {"memory", "swap", "install", "issue"}, At(w, s)
             PROVE  FALSE
  OBVIOUS
<1>1. s = todo[w][1] /\ todo[w] # <<>>
  BY OwnStep
<1>2. todo[w] \in Seq(Step \ Handing)
  BY <1>1 DEF Spent
<1>3. s \in Step \ Handing
  BY <1>1, <1>2, StepsStay
<1> QED
  BY <1>3 DEF Handing

(* A goroutine that works has steps left. *)
LEMMA IdleDoesNotWork ==
    ASSUME BaseInv, NEW w \in Goroutine, Work(w)
    PROVE  todo[w] # <<>>
<1>1. CASE \/ StartAccount(w, "start", "ignore") \/ StartAccount(w, "addStart", "abort")
           \/ StartAccount(w, "restart", "fail") \/ Sdk(w) \/ Launch(w) \/ MarkReady(w) \/ MarkFailed(w)
  BY <1>1 DEF StartAccount, Sdk, Launch, MarkReady, MarkFailed, At
<1>2. CASE SetEnabled(w, "enable", TRUE) \/ SetEnabled(w, "disable", FALSE) \/ CheckFree(w) \/ Install(w)
           \/ InstallFails(w) \/ Abort(w) \/ RemoveAccount(w) \/ Issue(w) \/ Exchange(w) \/ Authorize(w)
  BY <1>2 DEF SetEnabled, CheckFree, Install, InstallFails, Abort, RemoveAccount, Issue, Exchange, Authorize, At
<1>3. CASE StoreToken(w) \/ KeepToken(w) \/ Unlist(w) \/ ListAccount(w) \/ Visit(w) \/ Gather(w)
  BY <1>3 DEF StoreToken, KeepToken, Unlist, ListAccount, Visit, Gather, At
<1>4. CASE BuildBackend(w) \/ CloseOld(w) \/ SwapBackend(w) \/ Look(w) \/ ClearToken(w) \/ DropState(w)
  BY <1>4 DEF BuildBackend, CloseOld, SwapBackend, Look, ClearToken, DropState, At
<1> QED
  BY <1>1, <1>2, <1>3, <1>4 DEF Work

(* Nothing that LogoutInv reads has changed. *)
LEMMA StillLogout ==
    ASSUME LogoutInv, UNCHANGED <<account, back, pool, states, cleared, scene>>,
           \A v \in Worker : todo'[v] = todo[v] /\ me'[v] = me[v]
    PROVE  LogoutInv'
<1>1. \A i : \A v \in Worker : TokenBusy(v, i)' <=> TokenBusy(v, i)
  BY DEF TokenBusy
<1>2. \A i \in cleared : Gone(i)' <=> Gone(i)
  BY DEF Gone, Loggedout, Tokenless, Asking, AsksVault, Standing, Vaulted
<1>3. ASSUME NEW v \in Worker
      PROVE  (LogoutAlone(v)' <=> LogoutAlone(v)) /\ (Stage(todo[v], me[v])' <=> Stage(todo[v], me[v]))
  <2> DEFINE q == todo[v]
             l == me[v]
  <2>1. q' = q /\ l' = l
    OBVIOUS
  <2>2. LogoutAlone(v)' <=> LogoutAlone(v)
    BY DEF LogoutAlone
  <2> HIDE DEF q, l
  <2>3. Stage(q, l)' <=> Stage(q, l)
    <3>1. Loggedout(l.id)' <=> Loggedout(l.id)
      BY <2>1 DEF Loggedout
    <3>2. Tokenless(l.id)' <=> Tokenless(l.id)
      BY <2>1 DEF Tokenless, Asking, AsksVault, Standing, Vaulted
    <3> QED
      BY <2>1, <3>1, <3>2 DEF Stage, Asking, AsksVault, Standing, Vaulted
  <2> QED
    BY <2>2, <2>3 DEF q, l
<1>4. LogoutsAlone'
  BY <1>1, <1>3 DEF LogoutInv, LogoutsAlone
<1>5. ClearedStay'
  BY <1>1, <1>2 DEF LogoutInv, ClearedStay, Spent
<1> QED
  BY <1>4, <1>5 DEF LogoutInv

(* A step keeps LogoutInv. *)
LEMMA WorkLogout ==
    ASSUME BaseInv, IdsMatch, LoopIsNoHandler, LogoutInv, NEW w \in Goroutine, Work(w), UNCHANGED scene
    PROVE  LogoutInv'
<1>1. TokenEffect(w) /\ Passes(w) /\ BackendTokens
  BY WorkTokens, WorkPasses DEF TokenEffect
<1>2. \A v \in Goroutine \ {w} : todo'[v] = todo[v] /\ me'[v] = me[v]
  BY <1>1 DEF Passes
<1>3. todo'[w] # <<>> => me'[w].op = me[w].op /\ me'[w].id = me[w].id /\ me'[w].alone = me[w].alone
  BY <1>1 DEF Passes, CallKept, SameCall
<1>4. todo[w] # <<>>
  BY IdleDoesNotWork
<1>5. me[w].op # "none" => w \in Worker
  BY DEF Goroutine, LoopIsNoHandler
<1>6. \A i : \A v \in Worker : TokenBusy(v, i)' => TokenBusy(v, i)
  BY <1>2, <1>3, <1>4 DEF TokenBusy, Goroutine
<1>7. \A v \in Goroutine : me[v].id \in Id
  BY DEF BaseInv, TypeOK, Locals
<1>8. ASSUME NEW i \in Id, ~(w \in Worker /\ TokenBusy(w, i))
      PROVE  Exact(i)
  <2>1. me[w].op \notin TokenOps \/ me[w].id # i
    BY <1>4, <1>5, <1>8 DEF TokenBusy, TokenOps
  <2> QED
    BY <1>1, <2>1, Elsewhere
<1>9. LogoutsAlone'
  <2> SUFFICES ASSUME NEW v \in Worker, LogoutAlone(v)'
               PROVE  /\ (\A u \in Worker \ {v} : ~TokenBusy(u, me[v].id))'
                      /\ Stage(todo[v], me[v])'
    BY DEF LogoutsAlone
  <2>1. v \in Goroutine
    BY DEF Goroutine
  <2>2. LogoutAlone(v) /\ me'[v].id = me[v].id
    BY <1>2, <1>3, <1>4, <2>1 DEF LogoutAlone
  <2>3. Stage(todo[v], me[v]) /\ \A u \in Worker \ {v} : ~TokenBusy(u, me[v].id)
    BY <2>2 DEF LogoutInv, LogoutsAlone
  <2>4. (\A u \in Worker \ {v} : ~TokenBusy(u, me[v].id))'
    <3> SUFFICES ASSUME NEW u \in Worker \ {v}, todo'[u] # <<>>, me'[u].id = me'[v].id, me'[u].op \in TokenOps
                 PROVE  FALSE
      BY DEF TokenBusy
    <3>1. TokenBusy(u, me[v].id)
      BY <1>2, <1>3, <1>4, <2>2 DEF TokenBusy, Goroutine
    <3> QED
      BY <2>3, <3>1
  <2>5. CASE v # w
    <3>1. Exact(me[v].id)
      <4>1. ~(w \in Worker /\ TokenBusy(w, me[v].id))
        BY <2>3, <2>5
      <4> QED
        BY <1>7, <1>8, <2>1, <4>1
    <3> QED
      BY <1>1, <1>2, <2>1, <2>3, <2>4, <2>5, <3>1, StageStays
  <2>6. CASE v = w
    <3>1. Stage(todo[w], me[w])'
      BY <1>4, <2>2, <2>3, <2>6, StageMoves DEF LogoutAlone
    <3> QED
      BY <2>4, <2>6, <3>1
  <2> QED
    BY <2>5, <2>6
<1>10. ClearedStay'
  <2> SUFFICES ASSUME NEW i \in cleared'
               PROVE  Gone(i)' /\ \A v \in Worker : TokenBusy(v, i)' => Spent(todo'[v])
    BY DEF ClearedStay, Spent
  <2>1. CASE i \in cleared
    <3>1. i \in Id /\ Gone(i) /\ \A v \in Worker : TokenBusy(v, i) => Spent(todo[v])
      BY <2>1 DEF LogoutInv, ClearedStay, BaseInv, TypeOK
    <3>2. Exact(i) \/ Mild(i)
      <4>1. CASE w \in Worker /\ TokenBusy(w, i)
        BY <1>1, <3>1, <4>1, SpentIsNowhere, TakesAway
      <4> QED
        BY <1>8, <3>1, <4>1
    <3>3. Gone(i)'
      BY <3>1, <3>2, GoneStays
    <3>4. ASSUME NEW v \in Worker, TokenBusy(v, i)'
          PROVE  Spent(todo'[v])
      <4>1. TokenBusy(v, i) /\ Spent(todo[v])
        BY <1>6, <3>1, <3>4
      <4>2. CASE v # w
        BY <1>2, <4>1, <4>2 DEF Goroutine
      <4>3. CASE v = w
        BY <3>1, <4>1, <4>3, SpentMoves DEF TokenBusy
      <4> QED
        BY <4>2, <4>3
    <3> QED
      BY <3>3, <3>4
  <2>2. CASE i \notin cleared
    <3>1. todo'[w] = <<>> /\ me[w].op = "logout" /\ me[w].alone /\ i = me[w].id
      BY <1>1, <2>2 DEF Passes
    <3>2. w \in Worker
      BY <1>5, <3>1
    <3>3. Stage(todo[w], me[w]) /\ \A v \in Worker \ {w} : ~TokenBusy(v, i)
      BY <1>4, <3>1, <3>2 DEF LogoutInv, LogoutsAlone, LogoutAlone
    <3>4. Gone(i)'
      BY <1>4, <3>1, <3>2, <3>3, StageMoves
    <3>5. \A v \in Worker : ~TokenBusy(v, i)'
      <4>1. ~TokenBusy(w, i)'
        BY <3>1 DEF TokenBusy
      <4> QED
        BY <1>6, <3>3, <4>1
    <3> QED
      BY <3>4, <3>5
  <2> QED
    BY <2>1, <2>2
<1> QED
  BY <1>9, <1>10 DEF LogoutInv

(* A handler begins: a logout of a backend that agrees with its account, or    *)
(* another one, which a logout of the same id notices.                         *)
LEMMA BeginLogout ==
    ASSUME BaseInv, IdsMatch, LogoutInv, NEW w \in Worker, Begin(w), UNCHANGED scene
    PROVE  LogoutInv'
<1>1. w \in Goroutine /\ todo \in [Goroutine -> Seq(Step)] /\ me \in [Goroutine -> Locals]
  BY DEF Goroutine, BaseInv, TypeOK
<1>2. PICK op \in scene.operations, id \in Id, t \in scene.tokens \cup {""} : Begins(w, op, id, t)
  BY Begun
<1>3. /\ Idle(w) /\ (op \notin {"create", "delete", "poll"} => pool[id] # 0)
      /\ UNCHANGED <<account, back, pool, states>>
      /\ todo' = [todo EXCEPT ![w] = Program(op)]
      /\ cleared' = IF op \in {"create", "setToken", "login"} THEN cleared \ {id} ELSE cleared
      /\ me' = [v \in Goroutine |->
                     IF v = w THEN Called(w, op, id, t)
                     ELSE IF v \in Rivals(w, id) /\ op \in TokenOps THEN [me[v] EXCEPT !.alone = FALSE]
                     ELSE me[v]]
  BY <1>2 DEF Begins, accounts, clients, logins
<1>4. todo'[w] = Program(op) /\ me'[w] = Called(w, op, id, t) /\ \A v \in Goroutine \ {w} : todo'[v] = todo[v]
  BY <1>1, <1>3
<1>5. me'[w].op = op /\ me'[w].id = id /\ me'[w].alone = (Rivals(w, id) = {} /\ TokensAgree(id))
  BY <1>4 DEF Called, NoLocals
<1>6. ASSUME NEW v \in Worker \ {w}
      PROVE  /\ v \in Goroutine /\ todo'[v] = todo[v] /\ me'[v].op = me[v].op /\ me'[v].id = me[v].id
             /\ me'[v].alone => me'[v] = me[v] /\ ~(v \in Rivals(w, id) /\ op \in TokenOps)
  <2>1. v \in Goroutine /\ me[v] \in Locals
    BY <1>1 DEF Goroutine
  <2>2. [me[v] EXCEPT !.alone = FALSE].op = me[v].op /\ [me[v] EXCEPT !.alone = FALSE].id = me[v].id
        /\ ~[me[v] EXCEPT !.alone = FALSE].alone
    BY <2>1 DEF Locals
  <2>3. me'[v] = IF v \in Rivals(w, id) /\ op \in TokenOps THEN [me[v] EXCEPT !.alone = FALSE] ELSE me[v]
    BY <1>3, <2>1
  <2> QED
    BY <1>4, <2>1, <2>2, <2>3
<1>7. /\ \A i \in Id : pool[i] # 0 => /\ pool[i] \in 1..Len(account) /\ account[pool[i]].id = i
                                      /\ account[pool[i]].backend \in 1..Len(back)
      /\ Len(back) \in Nat /\ BackendTokens
  BY <1>3, Owned, TokensUntouched DEF IdsMatch
<1>8. \A i \in Id : Exact(i)
  BY <1>3 DEF Exact
<1>9. \A i : \A v \in Worker \ {w} : TokenBusy(v, i)' <=> TokenBusy(v, i)
  BY <1>6 DEF TokenBusy
<1>10. LogoutsAlone'
  <2> SUFFICES ASSUME NEW v \in Worker, LogoutAlone(v)'
               PROVE  /\ (\A u \in Worker \ {v} : ~TokenBusy(u, me[v].id))'
                      /\ Stage(todo[v], me[v])'
    BY DEF LogoutsAlone
  <2>1. CASE v # w
    <3>2. me'[v] = me[v] /\ todo'[v] = todo[v] /\ LogoutAlone(v) /\ ~(v \in Rivals(w, id) /\ op \in TokenOps)
      BY <1>6, <2>1 DEF LogoutAlone
    <3>3. Stage(todo[v], me[v]) /\ \A u \in Worker \ {v} : ~TokenBusy(u, me[v].id)
      BY <3>2 DEF LogoutInv, LogoutsAlone
    <3>4. Stage(todo[v], me[v])'
      <4>1. me[v].id \in Id
        BY <1>1, <1>6, <2>1 DEF Locals
      <4> QED
        BY <1>7, <1>8, <3>2, <3>3, <4>1, StageStays
    <3>5. ~(me'[w].id = me'[v].id /\ me'[w].op \in TokenOps)
      BY <1>5, <2>1, <3>2 DEF Rivals, LogoutAlone, TokenOps, Idle
    <3>6. (\A u \in Worker \ {v} : ~TokenBusy(u, me[v].id))'
      <4> SUFFICES ASSUME NEW u \in Worker \ {v}, todo'[u] # <<>>, me'[u].id = me'[v].id, me'[u].op \in TokenOps
                   PROVE  FALSE
        BY DEF TokenBusy
      <4>1. CASE u = w
        BY <3>5, <4>1
      <4>2. CASE u # w
        BY <1>6, <3>2, <3>3, <4>2 DEF TokenBusy
      <4> QED
        BY <4>1, <4>2
    <3> QED
      BY <3>4, <3>6
  <2>2. CASE v = w
    <3>1. op = "logout" /\ Rivals(w, id) = {} /\ TokensAgree(id) /\ pool[id] # 0
      BY <1>3, <1>5, <2>2 DEF LogoutAlone
    <3>2. (\A u \in Worker \ {v} : ~TokenBusy(u, me[v].id))'
      <4> SUFFICES ASSUME NEW u \in Worker \ {v}, todo'[u] # <<>>, me'[u].id = me'[v].id, me'[u].op \in TokenOps
                   PROVE  FALSE
        BY DEF TokenBusy
      <4>1. todo[u] # <<>> /\ me[u].id = id /\ me[u].op \in TokenOps /\ u # w
        BY <1>5, <1>6, <2>2
      <4> QED
        BY <3>1, <4>1 DEF Rivals, Idle, Goroutine
    <3>3. Loggedout(id) => Tokenless(id)
      <4>1. back[account[pool[id]].backend].token = ResolveToken(id, account[pool[id]].token)
        BY <3>1 DEF TokensAgree
      <4> QED
        BY <4>1 DEF Loggedout, Tokenless, ResolveToken, Asking, AsksVault, Standing
    <3>4. Loggedout(id)' => Tokenless(id)'
      BY <1>3, <3>3 DEF Loggedout, Tokenless, Asking, AsksVault, Standing, Vaulted
    <3>5. Ahead(todo'[w], 5)
      BY <1>4, <3>1, TokenPrograms
    <3>6. Stage(todo[v], me[v])'
      BY <1>3, <1>5, <2>2, <3>1, <3>4, <3>5 DEF Stage, Ahead
    <3> QED
      BY <3>2, <3>6
  <2> QED
    BY <2>1, <2>2
<1>11. ClearedStay'
  <2> SUFFICES ASSUME NEW i \in cleared'
               PROVE  Gone(i)' /\ \A v \in Worker : TokenBusy(v, i)' => Spent(todo'[v])
    BY DEF ClearedStay, Spent
  <2>1. i \in cleared /\ (op \in {"create", "setToken", "login"} => i # id)
    BY <1>3
  <2>2. i \in Id /\ Gone(i) /\ \A v \in Worker : TokenBusy(v, i) => Spent(todo[v])
    BY <2>1 DEF LogoutInv, ClearedStay, BaseInv, TypeOK
  <2>3. Gone(i)'
    BY <1>8, <2>2, GoneStays
  <2>4. ASSUME NEW v \in Worker, TokenBusy(v, i)'
        PROVE  Spent(todo'[v])
    <3>1. CASE v # w
      BY <1>6, <1>9, <2>2, <2>4, <3>1
    <3>2. CASE v = w
      <4>1. op \in {"delete", "poll", "logout"}
        BY <1>5, <2>1, <2>4, <3>2 DEF TokenBusy, TokenOps
      <4>2. Program("logout") \in Seq(Step) /\ Program("logout") # <<>>
        BY ShapedPrograms DEF Operation
      <4>3. Program("logout")[1] = "clear"
        BY LogoutClears
      <4> QED
        BY <1>4, <3>2, <4>1, <4>2, <4>3, TokenPrograms DEF Spent
    <3> QED
      BY <3>1, <3>2
  <2> QED
    BY <2>3, <2>4
<1> QED
  BY <1>10, <1>11 DEF LogoutInv

(* LogoutInv is inductive beside IdsInv. *)
LEMMA NextLogout ==
    ASSUME IdsInv, LoopIsNoHandler, LogoutInv, [Next]_vars
    PROVE  LogoutInv'
<1>1. BaseInv /\ IdsMatch
  BY DEF IdsInv
<1>2. CASE Next
  <2>1. UNCHANGED scene
    BY <1>2 DEF Next
  <2>2. CASE TakeSnapshot
    <3>1. /\ UNCHANGED <<account, back, pool, states, cleared>>
          /\ \E q, l : todo' = [todo EXCEPT ![Refresher] = q] /\ me' = [me EXCEPT ![Refresher] = l]
      BY <2>2 DEF TakeSnapshot, accounts, clients, logins
    <3>2. \A v \in Worker : todo'[v] = todo[v] /\ me'[v] = me[v]
      BY <1>1, <3>1, AdministrationAssumption DEF Goroutine, BaseInv, TypeOK
    <3> QED
      BY <2>1, <3>1, <3>2, StillLogout
  <2>3. CASE \E w \in Worker : Begin(w)
    BY <1>1, <2>1, <2>3, BeginLogout
  <2>4. CASE \E w \in Goroutine : Work(w)
    BY <1>1, <2>1, <2>4, WorkLogout
  <2> QED
    BY <1>2, <2>2, <2>3, <2>4 DEF Next
<1>3. CASE UNCHANGED vars
  <2>1. UNCHANGED <<account, back, pool, states, cleared, scene, todo, me>>
    BY <1>3 DEF vars
  <2> QED
    BY <2>1, StillLogout
<1> QED
  BY <1>2, <1>3

(* Spec implies always LogoutTakesTheToken, the property of Administration:    *)
(* after a logout that no other token operation of its id overlapped, and that *)
(* found the backend built with the token in memory, the account has no token  *)
(* and its backend only the one it would have without any login, unless it     *)
(* asks the vault; no poll, logout or deletion changes that, until a token is  *)
(* handed in or a login is started.                                            *)
THEOREM LogoutsTakeTheToken == Spec => []LogoutTakesTheToken
<1> DEFINE Inv == IdsInv /\ UseInv /\ LoopIsNoHandler /\ LogoutInv
<1>1. Init => Inv
  <2>1. Init => LoopIsNoHandler
    <3>1. Init => me = [w \in Goroutine |-> NoLocals]
      BY DEF Init
    <3>2. Refresher \in Goroutine /\ NoLocals.op = "none"
      BY DEF Goroutine, NoLocals
    <3> QED
      BY <3>1, <3>2 DEF LoopIsNoHandler
  <2>2. Init => LogoutInv
    <3>1. Init => todo = [w \in Goroutine |-> <<>>] /\ cleared = {}
      BY DEF Init
    <3> QED
      BY <3>1 DEF LogoutInv, LogoutsAlone, LogoutAlone, ClearedStay, Goroutine
  <2> QED
    BY <2>1, <2>2, InitIds, InitUse
<1>2. Inv /\ [Next]_vars => Inv'
  BY NextIds, NextUse, NextLogout
<1>3. Inv => LogoutTakesTheToken
  <2> SUFFICES ASSUME Inv, NEW i \in cleared, pool[i] # 0
               PROVE  /\ account[pool[i]].token = ""
                      /\ ~AsksVault(i, "") => back[account[pool[i]].backend].token = ResolveToken(i, "")
    BY DEF LogoutTakesTheToken
  <2>1. Loggedout(i) /\ Tokenless(i) /\ i \in Id
    BY DEF LogoutInv, ClearedStay, Gone, IdsInv, BaseInv, TypeOK
  <2>2. ~AsksVault(i, "") => ResolveToken(i, "") = Standing(i)
    BY DEF AsksVault, ResolveToken, Standing
  <2> QED
    BY <2>1, <2>2 DEF Loggedout, Tokenless, Asking
<1> QED
  BY <1>1, <1>2, <1>3, PTL DEF Spec

-----------------------------------------------------------------------------
(* The vault and the memory: while one goroutine at a time changes the token   *)
(* of an id, what it still has to write is known from its list (Pending).      *)
Writeless == Step \ {"store", "memory"}
Writing == <<"memory", "store", "exchange", "look">>
(* The last n steps of Writing are ahead, and no write after them. *)
Due(q, n) ==
    /\ q \in Seq(Step) /\ n <= Len(q)
    /\ \A k \in 1..Len(q) : IF k <= n THEN q[k] = Writing[n + 1 - k] ELSE q[k] \in Writeless
Pending(q, l) ==
    \/ Due(q, 0) \/ Due(q, 3) \/ Due(q, 4)
    \/ Due(q, 1) /\ l.account = pool[l.id] /\ (l.token # "" => vault[l.id] = l.token)
    \/ Due(q, 2) /\ l.account = pool[l.id]
    \/ q # <<>> /\ q[1] = "store" /\ Due(Tail(q), 0) /\ l.op = "create"

Careful(i) == i \in Vaulted /\ i \notin crossed
Alone(i) == \A v, w \in Worker : TokenBusy(v, i) /\ TokenBusy(w, i) => v = w
Orderly(i) == \A w \in Worker : TokenBusy(w, i) => Pending(todo[w], me[w])
Awaited(i) == \E w \in Worker : At(w, "memory") /\ me[w].id = i /\ me[w].token = vault[i]
Holds(i) == pool[i] # 0 /\ account[pool[i]].token # ""
InVault(i) == Holds(i) => vault[i] = account[pool[i]].token \/ Awaited(i)

VaultInv == \A i \in Id : Careful(i) => Alone(i) /\ Orderly(i) /\ InVault(i)

(* What is due after a step. *)
LEMMA DueTail ==
    ASSUME NEW q \in Seq(Step), NEW n \in 1..4, Due(q, n)
    PROVE  q # <<>> /\ q[1] = Writing[n] /\ Due(Tail(q), n - 1)
<1>1. q # <<>> /\ 1 \in 1..Len(q) /\ Tail(q) \in Seq(Step) /\ Len(Tail(q)) = Len(q) - 1
      /\ \A k \in 1..Len(Tail(q)) : Tail(q)[k] = q[k + 1] /\ k + 1 \in 1..Len(q)
  BY DEF Due
<1>2. q[1] = Writing[n + 1 - 1] /\ n + 1 - 1 = n
  BY <1>1 DEF Due
<1>3. ASSUME NEW k \in 1..Len(Tail(q))
      PROVE  IF k <= n - 1 THEN Tail(q)[k] = Writing[(n - 1) + 1 - k] ELSE Tail(q)[k] \in Writeless
  <2>1. IF k + 1 <= n THEN q[k + 1] = Writing[n + 1 - (k + 1)] ELSE q[k + 1] \in Writeless
    BY <1>1 DEF Due
  <2>2. n + 1 - (k + 1) = (n - 1) + 1 - k /\ (k + 1 <= n <=> k <= n - 1)
    BY <1>1
  <2> QED
    BY <1>1, <2>1, <2>2
<1>4. n - 1 <= Len(Tail(q))
  BY <1>1 DEF Due
<1> QED
  BY <1>1, <1>2, <1>3, <1>4 DEF Due

(* The same, for each of the four steps. *)
LEMMA DueNext ==
    ASSUME NEW q \in Seq(Step)
    PROVE  /\ Due(q, 1) => q # <<>> /\ q[1] = "memory" /\ Due(Tail(q), 0)
           /\ Due(q, 2) => q # <<>> /\ q[1] = "store" /\ Due(Tail(q), 1)
           /\ Due(q, 3) => q # <<>> /\ q[1] = "exchange" /\ Due(Tail(q), 2)
           /\ Due(q, 4) => q # <<>> /\ q[1] = "look" /\ Due(Tail(q), 3)
<1>1. \A n \in 1..4 : Due(q, n) => q # <<>> /\ q[1] = Writing[n] /\ Due(Tail(q), n - 1)
  BY DueTail
<1>2. 1 - 1 = 0 /\ 2 - 1 = 1 /\ 3 - 1 = 2 /\ 4 - 1 = 3 /\ {1, 2, 3, 4} \subseteq 1..4
  OBVIOUS
<1>3. Writing[1] = "memory" /\ Writing[2] = "store" /\ Writing[3] = "exchange" /\ Writing[4] = "look"
  BY DEF Writing
<1> HIDE DEF Due
<1> QED
  BY <1>1, <1>2, <1>3

(* A list that is put together is due what its first part is. *)
LEMMA DueJoin ==
    ASSUME NEW p, NEW n \in 0..4, Due(p, n), NEW r \in Seq(Writeless)
    PROVE  Due(p \o r, n)
<1>1. p \in Seq(Step) /\ r \in Seq(Step) /\ n <= Len(p) /\ \A k \in 1..Len(r) : r[k] \in Writeless
  BY DEF Due, Writeless
<1>2. p \o r \in Seq(Step) /\ Len(p \o r) = Len(p) + Len(r) /\ Len(p) \in Nat /\ Len(r) \in Nat
  BY <1>1, Concatenated
<1>3. ASSUME NEW k \in 1..Len(p \o r)
      PROVE  IF k <= n THEN (p \o r)[k] = Writing[n + 1 - k] ELSE (p \o r)[k] \in Writeless
  <2>1. (p \o r)[k] = IF k <= Len(p) THEN p[k] ELSE r[k - Len(p)]
    BY <1>1, <1>2, Concatenated
  <2>2. CASE k <= Len(p)
    <3>1. k \in 1..Len(p) /\ (p \o r)[k] = p[k]
      BY <1>2, <2>1, <2>2
    <3> QED
      BY <3>1 DEF Due
  <2>3. CASE k > Len(p)
    <3>1. k - Len(p) \in 1..Len(r) /\ (p \o r)[k] = r[k - Len(p)] /\ ~(k <= n)
      BY <1>1, <1>2, <2>1, <2>3
    <3> QED
      BY <1>1, <3>1
  <2> QED
    BY <1>2, <2>2, <2>3
<1> QED
  BY <1>1, <1>2, <1>3 DEF Due

(* Two lists, one after the other, element by element. *)
LEMMA OneAfterAnother ==
    ASSUME NEW p \in Seq(Step), NEW r \in Seq(Step), NEW n \in Nat, Len(p) = n
    PROVE  /\ p \o r \in Seq(Step) /\ Len(p \o r) = n + Len(r) /\ Len(r) \in Nat
           /\ \A k \in 1..Len(p \o r) : (p \o r)[k] = IF k <= n THEN p[k] ELSE r[k - n]
<1> DEFINE q == p \o r
<1>1. Len(r) \in Nat /\ Len(p) + Len(r) = n + Len(r)
  OBVIOUS
<1>2. q \in Seq(Step) /\ Len(q) = Len(p) + Len(r)
  BY Concatenated
<1>3. \A k \in 1..(Len(p) + Len(r)) : q[k] = IF k <= Len(p) THEN p[k] ELSE r[k - Len(p)]
  BY Concatenated
<1> HIDE DEF q
<1>4. \A k \in 1..Len(q) : q[k] = IF k <= n THEN p[k] ELSE r[k - n]
  BY <1>2, <1>3
<1> QED
  BY <1>1, <1>2, <1>4 DEF q

(* A list without writes is due to write nothing, and the other way round. *)
LEMMA DueNothing ==
    ASSUME NEW q
    PROVE  Due(q, 0) <=> q \in Seq(Writeless)
<1>1. q \in Seq(Writeless) => Due(q, 0)
  BY DEF Due, Writeless
<1>2. ASSUME Due(q, 0)
      PROVE  q \in Seq(Writeless)
  <2>1. q \in Seq(Step) /\ \A k \in 1..Len(q) : ~(k <= 0) /\ q[k] \in Writeless
    BY <1>2 DEF Due
  <2> QED
    BY <2>1
<1> QED
  BY <1>1, <1>2

(* What the handlers still have to write when they begin. *)
LEMMA WritingPrograms ==
    ASSUME NEW l, NEW op \in TokenOps, l.op = op, l.account = pool[l.id]
    PROVE  Pending(Program(op), l)
<1>1. RefreshAccount \in Seq(Writeless) /\ RebuildBackend \in Seq(Writeless) /\ <<"authorize">> \in Seq(Writeless)
  BY DEF RefreshAccount, RebuildBackend, Writeless, Step
<1>2. CASE op = "create"
  <2> DEFINE p == <<"store", "check", "install", "addStart">>
  <2>1. p \in Seq(Step) /\ Len(p) = 4 /\ p[1] = "store" /\ \A k \in 2..4 : p[k] \in Writeless
    BY DEF Step, Writeless
  <2>2. Program(op) = p \o RefreshAccount
    BY <1>2 DEF Program, adminCreateUser
  <2>3. RefreshAccount \in Seq(Step)
    BY <1>1 DEF Writeless
  <2> HIDE DEF p
  <2> DEFINE q == p \o RefreshAccount
  <2>4. q \in Seq(Step) /\ Len(q) = 4 + Len(RefreshAccount) /\ Len(RefreshAccount) \in Nat
        /\ \A k \in 1..Len(q) : q[k] = IF k <= 4 THEN p[k] ELSE RefreshAccount[k - 4]
    <3> DEFINE r == RefreshAccount
    <3>1. r \in Seq(Step) /\ 4 \in Nat
      BY <2>3
    <3> HIDE DEF r
    <3>2. /\ p \o r \in Seq(Step) /\ Len(p \o r) = 4 + Len(r) /\ Len(r) \in Nat
          /\ \A k \in 1..Len(p \o r) : (p \o r)[k] = IF k <= 4 THEN p[k] ELSE r[k - 4]
      BY <2>1, <3>1, OneAfterAnother
    <3> QED
      BY <3>2 DEF r
  <2>5. \A k \in 2..Len(q) : q[k] \in Writeless
    <3> SUFFICES ASSUME NEW k \in 2..Len(q)
                 PROVE  q[k] \in Writeless
      OBVIOUS
    <3>1. CASE k <= 4
      BY <2>1, <2>4, <3>1
    <3>2. CASE k > 4
      <4>1. k - 4 \in 1..Len(RefreshAccount) /\ q[k] = RefreshAccount[k - 4]
        BY <2>4, <3>2
      <4> QED
        BY <1>1, <4>1
    <3> QED
      BY <2>4, <3>1, <3>2
  <2> HIDE DEF q
  <2>6. q # <<>> /\ q[1] = "store" /\ Tail(q) \in Seq(Writeless)
    <3>1. q \in Seq(Step) /\ q # <<>> /\ 1 \in 1..Len(q) /\ q[1] = "store"
      BY <2>1, <2>4
    <3>2. Tail(q) \in Seq(Step) /\ \A k \in 1..Len(Tail(q)) : Tail(q)[k] = q[k + 1] /\ k + 1 \in 2..Len(q)
      BY <3>1
    <3>3. \A k \in 1..Len(Tail(q)) : Tail(q)[k] \in Writeless
      BY <2>5, <3>2
    <3> DEFINE t == Tail(q)
    <3>4. t \in Seq(Step) /\ \A k \in 1..Len(t) : t[k] \in Writeless
      BY <3>2, <3>3
    <3> HIDE DEF t
    <3>5. t \in Seq(Writeless)
      BY <3>4
    <3> QED
      BY <3>1, <3>5 DEF t
  <2> QED
    BY <1>2, <2>2, <2>6, DueNothing DEF Pending, q
<1>3. Due(ApplyToken, 2)
  <2> DEFINE p == <<"store", "memory">>
  <2>1. Due(p, 2)
    BY DEF Due, Writing, Step
  <2>2. ApplyToken = p \o RebuildBackend
    BY DEF ApplyToken
  <2> HIDE DEF p
  <2> QED
    BY <1>1, <2>1, <2>2, DueJoin
<1>4. CASE op = "setToken"
  <2>1. Program(op) = ApplyToken \o RefreshAccount
    BY <1>4 DEF Program, adminUserSetToken
  <2>2. Due(Program(op), 2)
    BY <1>1, <1>3, <2>1, DueJoin
  <2> QED
    BY <2>2 DEF Pending
<1>5. CASE op = "poll"
  <2> DEFINE p == <<"look", "exchange">>
             q == p \o ApplyToken
  <2>1. p \in Seq(Step) /\ Len(p) = 2 /\ p[1] = Writing[4] /\ p[2] = Writing[3] /\ ApplyToken \in Seq(Step)
    BY <1>3 DEF Step, Due, Writing
  <2>2. Program(op) = (q \o <<"authorize">>) \o RefreshAccount
    BY <1>5 DEF Program, adminUserLoginPoll
  <2> HIDE DEF p
  <2>3. q \in Seq(Step) /\ Len(q) = 2 + Len(ApplyToken) /\ Len(ApplyToken) \in Nat /\ 2 <= Len(ApplyToken)
        /\ \A k \in 1..Len(q) : q[k] = IF k <= 2 THEN p[k] ELSE ApplyToken[k - 2]
    <3>1. 2 <= Len(ApplyToken)
      BY <1>3 DEF Due
    <3> DEFINE r == ApplyToken
    <3>2. r \in Seq(Step) /\ 2 \in Nat
      BY <2>1
    <3> HIDE DEF r
    <3>3. /\ p \o r \in Seq(Step) /\ Len(p \o r) = 2 + Len(r) /\ Len(r) \in Nat
          /\ \A k \in 1..Len(p \o r) : (p \o r)[k] = IF k <= 2 THEN p[k] ELSE r[k - 2]
      BY <2>1, <3>2, OneAfterAnother
    <3> QED
      BY <3>1, <3>3 DEF r
  <2>4. ASSUME NEW k \in 1..Len(q)
        PROVE  IF k <= 4 THEN q[k] = Writing[4 + 1 - k] ELSE q[k] \in Writeless
    <3>1. CASE k = 1 \/ k = 2
      BY <2>1, <2>3, <3>1
    <3>2. CASE k > 2
      <4>1. k - 2 \in 1..Len(ApplyToken) /\ q[k] = ApplyToken[k - 2]
        BY <2>3, <3>2
      <4>2. IF k - 2 <= 2 THEN ApplyToken[k - 2] = Writing[2 + 1 - (k - 2)] ELSE ApplyToken[k - 2] \in Writeless
        BY <1>3, <4>1 DEF Due
      <4>3. 2 + 1 - (k - 2) = 4 + 1 - k /\ (k - 2 <= 2 <=> k <= 4)
        BY <2>3
      <4> QED
        BY <4>1, <4>2, <4>3
    <3> QED
      BY <2>3, <3>1, <3>2
  <2>5. Due(q, 4)
    BY <2>3, <2>4 DEF Due
  <2> HIDE DEF q
  <2>6. Due((q \o <<"authorize">>) \o RefreshAccount, 4)
    <3>1. Due(q \o <<"authorize">>, 4)
      <4> DEFINE r == <<"authorize">>
      <4>1. r \in Seq(Writeless) /\ 4 \in 0..4
        BY <1>1
      <4> HIDE DEF r
      <4>2. Due(q \o r, 4)
        BY <2>5, <4>1, DueJoin
      <4> QED
        BY <4>2 DEF r
    <3> QED
      BY <1>1, <3>1, DueJoin
  <2> QED
    BY <2>2, <2>6 DEF Pending
<1>6. CASE op \in {"delete", "login", "logout"}
  <2>1. Program(op) \in Seq(StepsOf(op))
    BY <1>6, ProgramSteps DEF Operation
  <2>2. StepsOf(op) \subseteq Writeless
    BY <1>6 DEF StepsOf, Writeless
  <2>3. Program(op) \in Seq(Writeless)
    BY <2>1, <2>2
  <2> QED
    BY <2>3, DueNothing DEF Pending
<1> QED
  BY <1>2, <1>4, <1>5, <1>6 DEF TokenOps

(* Only StoreToken writes the vault, and no id becomes careful again. *)
LEMMA VaultMoves ==
    ASSUME NEW w, Work(w)
    PROVE  \/ vault' = vault /\ crossed' = crossed
           \/ At(w, "store") /\ StoreToken(w)
<1>1. CASE \/ StartAccount(w, "start", "ignore") \/ StartAccount(w, "addStart", "abort")
           \/ StartAccount(w, "restart", "fail") \/ Sdk(w) \/ Launch(w) \/ MarkReady(w) \/ MarkFailed(w)
  BY <1>1 DEF StartAccount, Sdk, Launch, MarkReady, MarkFailed, logins
<1>2. CASE SetEnabled(w, "enable", TRUE) \/ SetEnabled(w, "disable", FALSE) \/ CheckFree(w) \/ Install(w)
           \/ InstallFails(w) \/ Abort(w) \/ RemoveAccount(w)
  BY <1>2 DEF SetEnabled, CheckFree, Install, InstallFails, Abort, RemoveAccount, logins
<1>3. CASE BuildBackend(w) \/ CloseOld(w) \/ SwapBackend(w) \/ KeepToken(w) \/ ClearToken(w)
  BY <1>3 DEF BuildBackend, CloseOld, SwapBackend, KeepToken, ClearToken, logins
<1>4. CASE Issue(w) \/ Look(w) \/ Exchange(w) \/ Authorize(w) \/ DropState(w)
  BY <1>4 DEF Issue, Look, Exchange, Authorize, DropState
<1>5. CASE Unlist(w) \/ ListAccount(w) \/ Visit(w) \/ Gather(w)
  BY <1>5 DEF Unlist, ListAccount, Visit, Gather, logins
<1>6. CASE StoreToken(w)
  BY <1>6 DEF StoreToken
<1> QED
  BY <1>1, <1>2, <1>3, <1>4, <1>5, <1>6 DEF Work

(* The one action of each step that writes or leads to a write. *)
LEMMA WritingStep ==
    ASSUME NEW w, Work(w)
    PROVE  /\ At(w, "store") => StoreToken(w)
           /\ At(w, "memory") => KeepToken(w)
           /\ At(w, "exchange") => Exchange(w)
<1>1. ASSUME NEW s \in {"store", "memory", "exchange"}, At(w, s)
      PROVE  \/ StoreToken(w) /\ s = "store"
             \/ KeepToken(w) /\ s = "memory"
             \/ Exchange(w) /\ s = "exchange"
  <2>1. CASE \/ StartAccount(w, "start", "ignore") \/ StartAccount(w, "addStart", "abort")
             \/ StartAccount(w, "restart", "fail") \/ Sdk(w) \/ Launch(w) \/ MarkReady(w) \/ MarkFailed(w)
    BY <1>1, <2>1 DEF StartAccount, Sdk, Launch, MarkReady, MarkFailed, At
  <2>2. CASE SetEnabled(w, "enable", TRUE) \/ SetEnabled(w, "disable", FALSE) \/ CheckFree(w) \/ Install(w)
             \/ InstallFails(w) \/ Abort(w) \/ RemoveAccount(w)
    BY <1>1, <2>2 DEF SetEnabled, CheckFree, Install, InstallFails, Abort, RemoveAccount, At
  <2>3. CASE BuildBackend(w) \/ CloseOld(w) \/ SwapBackend(w) \/ ClearToken(w) \/ Issue(w) \/ Look(w)
             \/ Authorize(w) \/ DropState(w)
    BY <1>1, <2>3 DEF BuildBackend, CloseOld, SwapBackend, ClearToken, Issue, Look, Authorize, DropState, At
  <2>4. CASE Unlist(w) \/ ListAccount(w) \/ Visit(w) \/ Gather(w)
    BY <1>1, <2>4 DEF Unlist, ListAccount, Visit, Gather, At
  <2>5. CASE StoreToken(w) \/ KeepToken(w) \/ Exchange(w)
    <3>1. /\ StoreToken(w) => At(w, "store")
          /\ KeepToken(w) => At(w, "memory")
          /\ Exchange(w) => At(w, "exchange")
      BY DEF StoreToken, KeepToken, Exchange
    <3>2. Head(todo[w]) = s
      BY <1>1 DEF At
    <3>3. \A x \in {"store", "memory", "exchange"} : At(w, x) => s = x
      BY <3>2 DEF At
    <3> QED
      BY <2>5, <3>1, <3>3
  <2> QED
    BY <2>1, <2>2, <2>3, <2>4, <2>5 DEF Work
<1> QED
  BY <1>1

(* A list without the two writes stays one, also over a rebuild. *)
LEMMA WritelessStays ==
    ASSUME BaseInv, NEW w \in Goroutine, Work(w), todo[w] \in Seq(Writeless), me[w].op # "none"
    PROVE  todo'[w] \in Seq(Writeless)
<1> DEFINE q == todo[w]
<1>1. q # <<>> /\ q \in Seq(Step) /\ At(w, q[1]) /\ Rest(w) = Tail(q)
  BY IdleDoesNotWork DEF BaseInv, TypeOK, At, Rest
<1>2. Shaped(q)
  BY <1>1, OwnStep
<1>3. ASSUME NEW t, NEW l, Proceed(w, t, l)
      PROVE  todo'[w] = t
  BY <1>3, Moves
<1>4. CASE q[1] \notin RebuildSteps
  <2>1. LaunchSteps \cup {"abort", "unlist", "start", "sdk", "list"} \subseteq Writeless
    BY DEF LaunchSteps, Writeless, Step
  <2> HIDE DEF q
  <2>2. q \in Seq(Writeless) /\ q = todo[w]
    BY DEF q
  <2> QED
    BY <1>1, <1>4, <2>1, <2>2, WorkPasses
<1>5. CASE q[1] \in RebuildSteps
  <2> DEFINE a == AfterRebuild(Tail(q))
  <2>1. a \in Seq(Step \ Handing) /\ <<"dropState">> \o a \in Seq(Step \ Handing)
    BY <1>1, <1>2, <1>5, RebuiltIsCalm
  <2>2. Step \ Handing \subseteq Writeless
    BY DEF Handing, Writeless
  <2>3. Tail(q) \in Seq(Writeless) /\ <<>> \in Seq(Writeless)
    BY <1>1, StepsStay
  <2> HIDE DEF a
  <2>4. a \in Seq(Writeless) /\ <<"dropState">> \o a \in Seq(Writeless)
    BY <2>1, <2>2
  <2>5. \E l : \/ Proceed(w, <<>>, l) \/ Proceed(w, Tail(q), l)
               \/ Proceed(w, a, l) \/ Proceed(w, <<"dropState">> \o a, l)
    <3>1. CASE q[1] = "clear"
      <4>1. ClearToken(w)
        BY <1>1, <3>1, TakesStep
      <4> QED
        BY <1>1, <4>1 DEF ClearToken, a
    <3>2. CASE q[1] = "build"
      <4>1. BuildBackend(w)
        BY <1>1, <3>2, TakesStep
      <4> QED
        BY <1>1, <4>1 DEF BuildBackend, Return, a
    <3>3. CASE q[1] = "close"
      <4>1. CloseOld(w)
        BY <1>1, <3>3, TakesStep
      <4> QED
        BY <1>1, <4>1 DEF CloseOld, Continue
    <3>4. CASE q[1] = "swap"
      <4>1. SwapBackend(w)
        BY <1>1, <3>4, TakesStep
      <4> QED
        BY <1>1, <4>1 DEF SwapBackend, Continue, a
    <3> QED
      BY <1>5, <3>1, <3>2, <3>3, <3>4 DEF RebuildSteps
  <2> QED
    BY <1>3, <2>3, <2>4, <2>5
<1> QED
  BY <1>4, <1>5

(* What the owner of a token operation on a careful id leaves to be written,   *)
(* and that the vault is ahead after it.                                       *)
LEMMA OwnerWrites ==
    ASSUME BaseInv, IdsMatch, LoopIsNoHandler, VaultInv, NEW w \in Worker, Work(w), UNCHANGED scene,
           NEW i \in Id, Careful(i), i \notin crossed', TokenBusy(w, i)
    PROVE  (todo'[w] # <<>> => Pending(todo[w], me[w])') /\ InVault(i)'
<1> DEFINE q == todo[w]
           l == me[w]
<1>1. /\ w \in Goroutine /\ q \in Seq(Step) /\ q # <<>> /\ l \in Locals /\ l.id = i /\ l.op \in TokenOps
      /\ l.op # "none" /\ Rest(w) = Tail(q) /\ At(w, q[1]) /\ l.account \in Nat /\ l.token \in Tokens
  BY DEF Goroutine, BaseInv, TypeOK, TokenBusy, TokenOps, Rest, At, Locals
<1>2. Pending(q, l) /\ InVault(i) /\ \A v \in Worker : TokenBusy(v, i) => v = w
  BY DEF VaultInv, Orderly, Alone
<1>3. TokenEffect(w) /\ Effect(w) /\ Passes(w)
  BY <1>1, WorkTokens, WorkEffect, WorkPasses
<1>4. \A v \in Worker : At(v, "memory") /\ me[v].id = i => v = w
  <2> SUFFICES ASSUME NEW v \in Worker, At(v, "memory"), me[v].id = i
               PROVE  v = w
    OBVIOUS
  <2>1. v \in Goroutine
    BY DEF Goroutine
  <2>2. "memory" \in StepsOf(me[v].op) /\ todo[v] # <<>>
    BY <2>1, OwnStep
  <2>3. TokenBusy(v, i)
    BY <2>2 DEF StepsOf, TokenBusy, TokenOps
  <2> QED
    BY <1>2, <2>3
<1>5. vault[i] \in Tokens /\ vault \in [Id -> Tokens] /\ account \in Seq(AccountRecord) /\ Len(account) \in Nat
      /\ pool \in [Id -> 0..Len(account)] /\ pool[i] \in 0..Len(account)
  BY Elements DEF BaseInv, TypeOK
<1>6. ASSUME NEW t, NEW k, Proceed(w, t, k)
      PROVE  todo'[w] = t /\ (t # <<>> => me'[w] = k)
  BY <1>1, <1>6, Moves
<1>7. q[1] # "store" => vault' = vault
  BY <1>1, VaultMoves, OwnStep
(* Without a write, the token is what it was, or gone, or of a new account. *)
<1>8. ASSUME q[1] # "store", q[1] # "memory"
      PROVE  InVault(i)'
  <2>1. vault' = vault
    BY <1>7, <1>8
  <2>2. ~At(w, "memory")
    BY <1>1, <1>8, OwnStep
  <2>3. Holds(i) => vault[i] = account[pool[i]].token
    BY <1>2, <1>4, <2>2 DEF InVault, Awaited
  <2>4. CASE pool'[i] = 0
    BY <2>4 DEF InVault, Holds
  <2>5. CASE pool'[i] = pool[i] /\ pool[i] # 0
    <3>1. pool[i] \in 1..Len(account)
      BY <1>5, <2>5
    <3>2. account'[pool[i]].token = account[pool[i]].token \/ account'[pool[i]].token = ""
      BY <1>3, <2>2, <3>1 DEF Effect, AccountsEffect
    <3> QED
      BY <2>1, <2>3, <2>5, <3>2 DEF InVault, Holds
  <2>6. CASE pool'[i] = Len(account) + 1
    <3>1. Len(account) + 1 \in 1..Len(account') \/ Len(account') < Len(account) + 1
      <4>1. Len(account') \in Nat
        BY <1>3, NextBase, Elements DEF Next, BaseInv, TypeOK
      <4> QED
        BY <1>5, <4>1
    <3>2. pool'[i] \in 0..Len(account')
      BY NextBase DEF Next, BaseInv, TypeOK, Goroutine
    <3>3. Len(account) + 1 \in 1..Len(account') /\ Len(account) + 1 \notin 1..Len(account)
      BY <1>5, <2>6, <3>1, <3>2
    <3>4. account'[Len(account) + 1].token = ""
      BY <1>1, <1>3, <3>3 DEF Effect, AccountsEffect, Careful
    <3> QED
      BY <2>6, <3>4 DEF InVault, Holds
  <2> QED
    BY <1>3, <2>4, <2>5, <2>6 DEF Effect, PoolEffect
<1>9. CASE Due(q, 0)
  <2>1. q[1] \in Writeless
    BY <1>1, <1>9, DueNothing, StepsStay
  <2>2. todo'[w] \in Seq(Writeless)
    BY <1>1, <1>9, DueNothing, WritelessStays
  <2>3. Due(todo'[w], 0)
    BY <2>2, DueNothing
  <2> QED
    BY <1>8, <2>1, <2>3 DEF Pending, Due, Writeless
<1>10. CASE Due(q, 1) /\ l.account = pool[l.id] /\ (l.token # "" => vault[l.id] = l.token)
  <2>1. q[1] = "memory" /\ Due(Tail(q), 0)
    BY <1>1, <1>10, DueNext
  <2>2. KeepToken(w) /\ vault' = vault
    BY <1>1, <1>7, <2>1, WritingStep
  <2>3. Proceed(w, Tail(q), l) /\ pool' = pool
    BY <1>1, <2>2 DEF KeepToken, Continue
  <2>4. todo'[w] = Tail(q)
    BY <1>6, <2>3
  <2>5. pool[i] # 0 => account'[pool[i]].token = l.token
    <3>1. TokenSet(account', account, l.account, l.token)
      BY <2>2 DEF KeepToken, TokenSet
    <3>2. \A n \in 1..Len(account) : account'[n].token = IF n = l.account THEN l.token ELSE account[n].token
      <4> HIDE DEF l
      <4> QED
        BY ONLY <1>1, <1>5, <3>1, AccountToken
    <3>3. pool[i] # 0 => pool[i] \in 1..Len(account)
      BY <1>5
    <3>4. l.account = pool[i]
      BY <1>1, <1>10
    <3> HIDE DEF l
    <3> QED
      BY <3>2, <3>3, <3>4
  <2>6. InVault(i)'
    BY <1>1, <1>10, <2>2, <2>3, <2>5 DEF InVault, Holds
  <2>7. Pending(todo[w], me[w])'
    BY <2>1, <2>4 DEF Pending, Due
  <2> QED
    BY <2>6, <2>7
<1>11. ASSUME At(w, "store"), i \in Vaulted
       PROVE  /\ StoreToken(w) /\ UNCHANGED <<account, pool>>
              /\ \/ Proceed(w, <<>>, l) /\ vault'[i] = vault[i]
                 \/ Proceed(w, Tail(q), l) /\ vault'[i] = IF l.token # "" THEN l.token ELSE vault[i]
              /\ ~At(w, "memory")
              /\ l.op = "create" /\ pool[i] # 0 /\ Proceed(w, Tail(q), l) /\ l.token # "" => i \in crossed' \/ Proceed(w, <<>>, l)
  <2>1. StoreToken(w) /\ UNCHANGED <<account, pool>>
    BY <1>11, WritingStep DEF StoreToken, accounts
  <2>2. ~At(w, "memory")
    BY <1>11 DEF At
  <2>3. \/ Proceed(w, <<>>, l) /\ vault' = vault
        \/ /\ Proceed(w, Tail(q), l)
           /\ vault' = IF l.token # "" THEN [vault EXCEPT ![i] = l.token] ELSE vault
           /\ l.op = "create" /\ pool[i] # 0 /\ l.token # "" => crossed' = crossed \cup {i}
    BY <1>1, <1>11, <2>1 DEF StoreToken, Continue, Return
  <2> QED
    BY <1>5, <2>1, <2>2, <2>3
<1>12. i \in Vaulted
  BY DEF Careful
<1>13. ASSUME At(w, "store")
       PROVE  Holds(i) => vault[i] = account[pool[i]].token
  BY <1>2, <1>4, <1>11, <1>12, <1>13 DEF InVault, Awaited
<1>14. CASE Due(q, 2) /\ l.account = pool[l.id]
  <2>1. q[1] = "store" /\ Due(Tail(q), 1)
    BY <1>1, <1>14, DueNext
  <2>2. At(w, "store")
    BY <1>1, <2>1
  <2>3. UNCHANGED <<account, pool>> /\ (Holds(i) => vault[i] = account[pool[i]].token)
    BY <1>11, <1>12, <1>13, <2>2
  <2>4. CASE Proceed(w, <<>>, l) /\ vault'[i] = vault[i]
    <3>1. todo'[w] = <<>>
      BY <1>6, <2>4
    <3>2. InVault(i)'
      BY <2>3, <2>4 DEF InVault, Holds
    <3> QED
      BY <3>1, <3>2
  <2>5. CASE Proceed(w, Tail(q), l) /\ vault'[i] = IF l.token # "" THEN l.token ELSE vault[i]
    <3>1. Tail(q) # <<>> /\ Tail(q)[1] = "memory" /\ Tail(q) \in Seq(Step)
      <4>1. Tail(q) \in Seq(Step)
        BY <1>1
      <4> QED
        BY <2>1, <4>1, DueNext
    <3>2. todo'[w] = Tail(q) /\ me'[w] = l
      BY <1>6, <2>5, <3>1
    <3>3. Due(todo'[w], 1) /\ me'[w].account = pool'[me'[w].id] /\ (me'[w].token # "" => vault'[me'[w].id] = me'[w].token)
      BY <1>1, <1>14, <2>1, <2>3, <2>5, <3>2
    <3>4. Pending(todo[w], me[w])'
      BY <3>3 DEF Pending, Due, Writeless
    <3>5. InVault(i)'
      <4>1. CASE l.token = ""
        BY <2>3, <2>5, <4>1 DEF InVault, Holds
      <4>2. CASE l.token # ""
        <5>1. (At(w, "memory"))'
          BY <3>1, <3>2 DEF At
        <5>2. me'[w].id = i /\ me'[w].token = vault'[i]
          BY <1>1, <2>5, <3>2, <4>2
        <5> QED
          BY <5>1, <5>2 DEF InVault, Awaited
      <4> QED
        BY <4>1, <4>2
    <3> QED
      BY <3>4, <3>5
  <2> QED
    BY <1>11, <1>12, <2>2, <2>4, <2>5
<1>15. CASE q[1] = "store" /\ Due(Tail(q), 0) /\ l.op = "create"
  <2>1. At(w, "store")
    BY <1>1, <1>15
  <2>2. UNCHANGED <<account, pool>> /\ (Holds(i) => vault[i] = account[pool[i]].token)
    BY <1>11, <1>12, <1>13, <2>1
  <2>3. todo'[w] = <<>> \/ todo'[w] = Tail(q)
    BY <1>6, <1>11, <1>12, <2>1
  <2>4. todo'[w] # <<>> => Pending(todo[w], me[w])'
    BY <1>15, <2>3 DEF Pending, Due
  <2>5. Holds(i) => vault'[i] = vault[i]
    <3>1. ASSUME Holds(i), Proceed(w, Tail(q), l), vault'[i] = IF l.token # "" THEN l.token ELSE vault[i]
          PROVE  vault'[i] = vault[i]
      <4>1. CASE l.token = ""
        BY <3>1, <4>1
      <4>2. CASE l.token # ""
        <5>1. StoreToken(w)
          BY <1>11, <1>12, <2>1
        <5>2. l.op = "create" /\ pool[i] # 0
          BY <1>15, <3>1 DEF Holds
        <5>3. vault' = vault
          BY <1>1, <1>12, <4>2, <5>1, <5>2 DEF StoreToken
        <5> QED
          BY <5>3
      <4> QED
        BY <4>1, <4>2
    <3> QED
      BY <1>11, <1>12, <2>1, <3>1
  <2>6. InVault(i)'
    BY <2>2, <2>5 DEF InVault, Holds
  <2> QED
    BY <2>4, <2>6
<1>16. CASE Due(q, 3)
  <2>1. q[1] = "exchange" /\ Due(Tail(q), 2)
    BY <1>1, <1>16, DueNext
  <2>2. Exchange(w) /\ At(w, "exchange")
    BY <1>1, <2>1, WritingStep
  <2>3. pool' = pool /\ \/ Proceed(w, <<>>, l)
                        \/ Proceed(w, Tail(q), [l EXCEPT !.account = pool[l.id]])
    BY <1>1, <2>2 DEF Exchange, Return, accounts
  <2>4. [l EXCEPT !.account = pool[l.id]].account = pool[l.id] /\ [l EXCEPT !.account = pool[l.id]].id = l.id
    BY <1>1 DEF Locals
  <2>5. todo'[w] # <<>> => Due(todo'[w], 2) /\ me'[w].account = pool'[me'[w].id]
    BY <1>6, <2>1, <2>3, <2>4
  <2>6. todo'[w] # <<>> => Pending(todo[w], me[w])'
    BY <2>5 DEF Pending, Due, Writeless
  <2> QED
    BY <1>8, <2>1, <2>6
<1>17. CASE Due(q, 4)
  <2>1. q[1] = "look" /\ Due(Tail(q), 3)
    BY <1>1, <1>17, DueNext
  <2>2. Look(w)
    BY <1>1, <2>1, TakesStep
  <2>3. \E k : Proceed(w, <<>>, k) \/ Proceed(w, RefreshAccount, k) \/ Proceed(w, Tail(q), k)
    BY <1>1, <2>2 DEF Look, Return
  <2>4. Due(RefreshAccount, 0)
    <3>1. RefreshAccount \in Seq(Writeless)
      BY DEF RefreshAccount, Writeless, Step
    <3> QED
      BY <3>1, DueNothing
  <2>5. todo'[w] # <<>> => Due(todo'[w], 0) \/ Due(todo'[w], 3)
    BY <1>6, <2>1, <2>3, <2>4
  <2>6. todo'[w] # <<>> => Pending(todo[w], me[w])'
    BY <2>5 DEF Pending, Due, Writeless
  <2> QED
    BY <1>8, <2>1, <2>6
<1> QED
  BY <1>2, <1>9, <1>10, <1>14, <1>15, <1>16, <1>17 DEF Pending

(* A step of another goroutine, or of another id, changes nothing of it. *)
LEMMA OthersWrite ==
    ASSUME BaseInv, IdsMatch, LoopIsNoHandler, VaultInv, NEW w \in Goroutine, Work(w), UNCHANGED scene,
           NEW i \in Id, Careful(i), ~(w \in Worker /\ TokenBusy(w, i))
    PROVE  Orderly(i)' /\ InVault(i)'
<1>1. todo[w] # <<>> /\ (me[w].op # "none" => w \in Worker)
  BY IdleDoesNotWork DEF Goroutine, LoopIsNoHandler
<1>2. me[w].op \notin TokenOps \/ me[w].id # i
  BY <1>1 DEF TokenBusy, TokenOps
<1>3. Exact(i) /\ Passes(w)
  BY <1>2, WorkTokens, WorkPasses, Elsewhere
<1>4. vault'[i] = vault[i]
  <2>1. CASE vault' = vault
    BY <2>1
  <2>2. CASE At(w, "store") /\ StoreToken(w)
    <3>1. "store" \in StepsOf(me[w].op)
      BY <2>2, OwnStep
    <3>2. me[w].id # i /\ me[w].id \in Id /\ vault \in [Id -> Tokens]
      BY <1>2, <3>1 DEF StepsOf, TokenOps, BaseInv, TypeOK, Locals
    <3>3. vault' = vault \/ vault' = [vault EXCEPT ![me[w].id] = me[w].token]
      BY <2>2 DEF StoreToken
    <3> QED
      BY <3>2, <3>3
  <2> QED
    BY <2>1, <2>2, VaultMoves
<1>5. \A v \in Worker : TokenBusy(v, i)' => v # w /\ TokenBusy(v, i) /\ todo'[v] = todo[v] /\ me'[v] = me[v]
  BY <1>1, <1>3, <1>2 DEF Passes, CallKept, SameCall, TokenBusy, Goroutine
<1>6. Orderly(i) /\ InVault(i)
  BY DEF VaultInv
<1>7. Orderly(i)'
  <2> SUFFICES ASSUME NEW v \in Worker, TokenBusy(v, i)'
               PROVE  Pending(todo[v], me[v])'
    BY DEF Orderly
  <2>1. todo'[v] = todo[v] /\ me'[v] = me[v] /\ Pending(todo[v], me[v]) /\ me[v].id = i
    BY <1>5, <1>6 DEF Orderly, TokenBusy
  <2> DEFINE q == todo[v]
             l == me[v]
  <2>2. q' = q /\ l' = l /\ l.id = i /\ Pending(q, l)
    BY <2>1
  <2> HIDE DEF q, l
  <2>3. Pending(q, l)'
    BY <1>3, <1>4, <2>2 DEF Pending, Exact, Due, Writing, Writeless
  <2> QED
    BY <2>3 DEF q, l
<1>8. Awaited(i) => Awaited(i)'
  <2> SUFFICES ASSUME NEW v \in Worker, At(v, "memory"), me[v].id = i, me[v].token = vault[i]
               PROVE  Awaited(i)'
    BY DEF Awaited
  <2>1. v \in Goroutine
    BY DEF Goroutine
  <2>2. "memory" \in StepsOf(me[v].op) /\ todo[v] # <<>>
    BY <2>1, OwnStep
  <2>3. v # w
    BY <1>2, <2>2 DEF StepsOf, TokenOps
  <2>4. todo'[v] = todo[v] /\ me'[v] = me[v]
    BY <1>3, <2>1, <2>3 DEF Passes
  <2> QED
    BY <1>4, <2>4 DEF Awaited, At
<1>9. InVault(i)'
  BY <1>3, <1>4, <1>6, <1>8 DEF InVault, Holds, Exact
<1> QED
  BY <1>7, <1>9

(* A step keeps VaultInv. *)
LEMMA WorkVault ==
    ASSUME BaseInv, IdsMatch, LoopIsNoHandler, VaultInv, NEW w \in Goroutine, Work(w), UNCHANGED scene
    PROVE  VaultInv'
<1> SUFFICES ASSUME NEW i \in Id, Careful(i)'
             PROVE  Alone(i)' /\ Orderly(i)' /\ InVault(i)'
  BY DEF VaultInv
<1>1. Careful(i) /\ i \notin crossed'
  <2>1. crossed \subseteq crossed'
    <3>1. StoreToken(w) => crossed \subseteq crossed'
      BY DEF StoreToken
    <3> QED
      BY <3>1, VaultMoves
  <2> QED
    BY <2>1 DEF Careful, Vaulted
<1>2. todo[w] # <<>> /\ Passes(w)
  BY IdleDoesNotWork, WorkPasses
<1>3. \A v \in Worker : /\ TokenBusy(v, i)' => TokenBusy(v, i)
                        /\ v # w => todo'[v] = todo[v] /\ me'[v] = me[v]
  BY <1>2 DEF Passes, CallKept, SameCall, TokenBusy, Goroutine
<1>4. Alone(i)'
  BY <1>1, <1>3 DEF VaultInv, Alone
<1>5. CASE w \in Worker /\ TokenBusy(w, i)
  <2>1. (todo'[w] # <<>> => Pending(todo[w], me[w])') /\ InVault(i)'
    BY <1>1, <1>5, OwnerWrites
  <2>2. \A v \in Worker : TokenBusy(v, i)' => v = w /\ todo'[w] # <<>>
    BY <1>1, <1>3, <1>5 DEF VaultInv, Alone, TokenBusy
  <2>3. Orderly(i)'
    BY <2>1, <2>2 DEF Orderly
  <2> QED
    BY <1>4, <2>1, <2>3
<1>6. CASE ~(w \in Worker /\ TokenBusy(w, i))
  BY <1>1, <1>4, <1>6, OthersWrite
<1> QED
  BY <1>5, <1>6

(* Nothing that VaultInv reads has changed but the marks of other goroutines. *)
LEMMA StillVault ==
    ASSUME NEW i, Orderly(i), InVault(i), UNCHANGED <<account, pool, vault>>, NEW S, S \subseteq Worker,
           \A v \in Worker \ S : ~TokenBusy(v, i)',
           \A v \in S : /\ todo'[v] = todo[v] /\ me'[v].id = me[v].id /\ me'[v].op = me[v].op
                        /\ me'[v].token = me[v].token /\ me'[v].account = me[v].account,
           \A v \in Worker : At(v, "memory") => v \in S
    PROVE  Orderly(i)' /\ InVault(i)'
<1>1. ASSUME NEW v \in Worker, TokenBusy(v, i)'
      PROVE  Pending(todo[v], me[v])'
  <2>1. v \in S /\ TokenBusy(v, i)
    BY <1>1 DEF TokenBusy
  <2>2. Pending(todo[v], me[v])
    BY <2>1 DEF Orderly
  <2> DEFINE q == todo[v]
             id == me[v].id
             tok == me[v].token
             acc == me[v].account
             op == me[v].op
  <2>3. q' = q /\ id' = id /\ tok' = tok /\ acc' = acc /\ op' = op
    BY <2>1
  <2>4. \/ Due(q, 0) \/ Due(q, 3) \/ Due(q, 4)
        \/ Due(q, 1) /\ acc = pool[id] /\ (tok # "" => vault[id] = tok)
        \/ Due(q, 2) /\ acc = pool[id]
        \/ q # <<>> /\ q[1] = "store" /\ Due(Tail(q), 0) /\ op = "create"
    BY <2>2 DEF Pending
  <2> HIDE DEF q, id, tok, acc, op
  <2>5. (\/ Due(q, 0) \/ Due(q, 3) \/ Due(q, 4)
         \/ Due(q, 1) /\ acc = pool[id] /\ (tok # "" => vault[id] = tok)
         \/ Due(q, 2) /\ acc = pool[id]
         \/ q # <<>> /\ q[1] = "store" /\ Due(Tail(q), 0) /\ op = "create")'
    BY <2>3, <2>4 DEF Due, Writing, Writeless
  <2> QED
    BY <2>5 DEF Pending, q, id, tok, acc, op
<1>2. Orderly(i)'
  BY <1>1 DEF Orderly
<1>3. Awaited(i) => Awaited(i)'
  BY DEF Awaited, At
<1> QED
  BY <1>2, <1>3 DEF InVault, Holds

(* A handler begins: alone on its token, or its id is no longer careful. *)
LEMMA BeginVault ==
    ASSUME BaseInv, IdsMatch, VaultInv, NEW w \in Worker, Begin(w), UNCHANGED scene
    PROVE  VaultInv'
<1>1. w \in Goroutine /\ todo \in [Goroutine -> Seq(Step)] /\ me \in [Goroutine -> Locals]
  BY DEF Goroutine, BaseInv, TypeOK
<1>2. PICK op \in scene.operations, id \in Id, t \in scene.tokens \cup {""} : Begins(w, op, id, t)
  BY Begun
<1>3. /\ Idle(w) /\ UNCHANGED <<account, pool, vault>>
      /\ todo' = [todo EXCEPT ![w] = Program(op)]
      /\ crossed' = IF Rivals(w, id) # {} /\ op \in TokenOps THEN crossed \cup {id} ELSE crossed
      /\ me' = [v \in Goroutine |->
                     IF v = w THEN Called(w, op, id, t)
                     ELSE IF v \in Rivals(w, id) /\ op \in TokenOps THEN [me[v] EXCEPT !.alone = FALSE]
                     ELSE me[v]]
  BY <1>2 DEF Begins, accounts
<1>4. todo'[w] = Program(op) /\ me'[w] = Called(w, op, id, t) /\ \A v \in Goroutine \ {w} : todo'[v] = todo[v]
  BY <1>1, <1>3
<1>5. me'[w].op = op /\ me'[w].id = id /\ me'[w].account = pool[id]
  BY <1>4 DEF Called, NoLocals
<1> DEFINE S == Worker \ {w}
<1>6. ASSUME NEW v \in S
      PROVE  /\ v \in Goroutine /\ todo'[v] = todo[v] /\ me'[v].id = me[v].id /\ me'[v].op = me[v].op
             /\ me'[v].token = me[v].token /\ me'[v].account = me[v].account
  <2>1. v \in Goroutine /\ me[v] \in Locals
    BY <1>1 DEF Goroutine
  <2>2. /\ [me[v] EXCEPT !.alone = FALSE].op = me[v].op /\ [me[v] EXCEPT !.alone = FALSE].id = me[v].id
        /\ [me[v] EXCEPT !.alone = FALSE].token = me[v].token /\ [me[v] EXCEPT !.alone = FALSE].account = me[v].account
    BY <2>1 DEF Locals
  <2>3. me'[v] = IF v \in Rivals(w, id) /\ op \in TokenOps THEN [me[v] EXCEPT !.alone = FALSE] ELSE me[v]
    BY <1>3, <2>1
  <2> QED
    BY <1>4, <2>1, <2>2, <2>3
<1>7. \A v \in Worker : At(v, "memory") => v \in S
  BY <1>3 DEF At, Idle
<1> SUFFICES ASSUME NEW i \in Id, Careful(i)'
             PROVE  Alone(i)' /\ Orderly(i)' /\ InVault(i)'
  BY DEF VaultInv
<1>8. Careful(i) /\ Alone(i) /\ Orderly(i) /\ InVault(i)
  BY <1>3 DEF Careful, Vaulted, VaultInv
<1>9. \A v \in S : TokenBusy(v, i)' <=> TokenBusy(v, i)
  BY <1>6 DEF TokenBusy
<1>10. CASE op \in TokenOps /\ id = i
  <2>1. Rivals(w, id) = {}
    BY <1>3, <1>10 DEF Careful
  <2>2. \A v \in S : ~TokenBusy(v, i)'
    BY <1>9, <1>10, <2>1 DEF TokenBusy, Rivals, Idle
  <2>3. Alone(i)'
    BY <2>2 DEF Alone
  <2>4. Pending(todo[w], me[w])'
    <3> DEFINE l == me'[w]
    <3>1. l.op = op /\ l.account = pool[l.id] /\ op \in TokenOps
      BY <1>5, <1>10
    <3> HIDE DEF l
    <3>2. Pending(Program(op), l)
      BY <3>1, WritingPrograms
    <3>3. l.account = pool'[l.id] /\ todo'[w] = Program(op) /\ l.op = op
      BY <1>3, <1>4, <3>1
    <3> QED
      <4> DEFINE p == Program(op)
      <4>1. \/ Due(p, 0) \/ Due(p, 3) \/ Due(p, 4)
            \/ Due(p, 1) /\ l.account = pool[l.id] /\ (l.token # "" => vault[l.id] = l.token)
            \/ Due(p, 2) /\ l.account = pool[l.id]
            \/ p # <<>> /\ p[1] = "store" /\ Due(Tail(p), 0) /\ l.op = "create"
        BY <3>2 DEF Pending
      <4>2. todo'[w] = p /\ pool' = pool /\ vault' = vault
        BY <1>3, <3>3
      <4> HIDE DEF p
      <4>3. \/ Due(todo'[w], 0) \/ Due(todo'[w], 3) \/ Due(todo'[w], 4)
            \/ Due(todo'[w], 1) /\ l.account = pool'[l.id] /\ (l.token # "" => vault'[l.id] = l.token)
            \/ Due(todo'[w], 2) /\ l.account = pool'[l.id]
            \/ todo'[w] # <<>> /\ todo'[w][1] = "store" /\ Due(Tail(todo'[w]), 0) /\ l.op = "create"
        BY <4>1, <4>2
      <4> QED
        BY <4>3 DEF Pending, Due, l, Writing, Writeless
  <2>5. Orderly(i)'
    BY <2>2, <2>4 DEF Orderly
  <2>6. Awaited(i) => Awaited(i)'
    BY <1>3, <1>6, <1>7 DEF Awaited, At
  <2> QED
    BY <1>3, <1>8, <2>3, <2>5, <2>6 DEF InVault, Holds
<1>11. CASE ~(op \in TokenOps /\ id = i)
  <2>1. ~TokenBusy(w, i)'
    BY <1>5, <1>11 DEF TokenBusy
  <2>2. Alone(i)'
    BY <1>8, <1>9, <2>1 DEF Alone
  <2>3. \A v \in Worker \ S : ~TokenBusy(v, i)'
    BY <2>1
  <2>4. S \subseteq Worker /\ Orderly(i) /\ InVault(i) /\ UNCHANGED <<account, pool, vault>>
    BY <1>3, <1>8
  <2> HIDE DEF S
  <2>5. Orderly(i)' /\ InVault(i)'
    BY <1>6, <1>7, <2>3, <2>4, StillVault
  <2> QED
    BY <2>2, <2>5
<1> QED
  BY <1>10, <1>11

(* VaultInv is inductive beside IdsInv. *)
LEMMA NextVault ==
    ASSUME IdsInv, LoopIsNoHandler, VaultInv, [Next]_vars
    PROVE  VaultInv'
<1>1. BaseInv /\ IdsMatch
  BY DEF IdsInv
<1>2. ASSUME UNCHANGED <<account, pool, vault, crossed, scene>>, \A v \in Worker : todo'[v] = todo[v] /\ me'[v] = me[v]
      PROVE  VaultInv'
  <2> SUFFICES ASSUME NEW i \in Id, Careful(i)'
               PROVE  Alone(i)' /\ Orderly(i)' /\ InVault(i)'
    BY DEF VaultInv
  <2>1. Alone(i) /\ Orderly(i) /\ InVault(i)
    BY <1>2 DEF Careful, Vaulted, VaultInv
  <2>2. Alone(i)'
    BY <1>2, <2>1 DEF Alone, TokenBusy
  <2>3. Orderly(i)' /\ InVault(i)'
    BY <1>2, <2>1, StillVault
  <2> QED
    BY <2>2, <2>3
<1>3. CASE Next
  <2>1. UNCHANGED scene
    BY <1>3 DEF Next
  <2>2. CASE TakeSnapshot
    <3>1. /\ UNCHANGED <<account, pool, vault, crossed>>
          /\ \E q, l : todo' = [todo EXCEPT ![Refresher] = q] /\ me' = [me EXCEPT ![Refresher] = l]
      BY <2>2 DEF TakeSnapshot, accounts, logins
    <3>2. \A v \in Worker : todo'[v] = todo[v] /\ me'[v] = me[v]
      BY <1>1, <3>1, AdministrationAssumption DEF Goroutine, BaseInv, TypeOK
    <3> QED
      BY <1>2, <2>1, <3>1, <3>2
  <2>3. CASE \E w \in Worker : Begin(w)
    BY <1>1, <2>1, <2>3, BeginVault
  <2>4. CASE \E w \in Goroutine : Work(w)
    BY <1>1, <2>1, <2>4, WorkVault
  <2> QED
    BY <1>3, <2>2, <2>3, <2>4 DEF Next
<1>4. CASE UNCHANGED vars
  <2>1. UNCHANGED <<account, pool, vault, crossed, scene, todo, me>>
    BY <1>4 DEF vars
  <2> QED
    BY <1>2, <2>1
<1> QED
  BY <1>3, <1>4

(* Spec implies always VaultAheadOfMemory, the property of Administration: as  *)
(* long as no two token operations of a vault account overlap, and no refused  *)
(* creation overwrites its secret, the token in memory is the one in the       *)
(* vault, or the vault has the newer one, which is about to replace it.        *)
THEOREM VaultIsAheadOfMemory == Spec => []VaultAheadOfMemory
<1> DEFINE Inv == IdsInv /\ UseInv /\ LoopIsNoHandler /\ VaultInv
<1>1. Init => Inv
  <2>1. Init => LoopIsNoHandler
    <3>1. Init => me = [w \in Goroutine |-> NoLocals]
      BY DEF Init
    <3>2. Refresher \in Goroutine /\ NoLocals.op = "none"
      BY DEF Goroutine, NoLocals
    <3> QED
      BY <3>1, <3>2 DEF LoopIsNoHandler
  <2>2. ASSUME Init
        PROVE  VaultInv
    <3>1. \A w \in Worker : todo[w] = <<>>
      BY <2>2 DEF Init, Goroutine
    <3>2. \A i \in Id : ~Holds(i)
      <4>1. BaseInv /\ \A n \in 1..Len(account) : account[n].token = ""
        <5>1. BaseInv
          BY <2>2, InitBase
        <5>2. account = [n \in DOMAIN SetToSeq(Configured) |-> [id |-> SetToSeq(Configured)[n], enabled |-> TRUE, token |-> "", backend |-> n]]
          BY <2>2 DEF Init
        <5> DEFINE ids == SetToSeq(Configured)
        <5>3. account = [n \in DOMAIN ids |-> [id |-> ids[n], enabled |-> TRUE, token |-> "", backend |-> n]]
          BY <5>2
        <5> HIDE DEF ids
        <5>4. \A n \in DOMAIN account : account[n].token = ""
          BY <5>3
        <5>5. DOMAIN account = 1..Len(account)
          BY <5>1 DEF BaseInv, TypeOK
        <5> QED
          BY <5>1, <5>4, <5>5
      <4>2. \A i \in Id : pool[i] # 0 => pool[i] \in 1..Len(account)
        <5>1. \A i \in Id : pool[i] \in 0..Len(account)
          BY <4>1 DEF BaseInv, TypeOK
        <5>2. Len(account) \in Nat
          BY <4>1, Elements DEF BaseInv, TypeOK
        <5> QED
          BY <5>1, <5>2
      <4> QED
        BY <4>1, <4>2 DEF Holds
    <3> QED
      BY <3>1, <3>2 DEF VaultInv, Alone, Orderly, InVault, TokenBusy
  <2> QED
    BY <2>1, <2>2, InitIds, InitUse
<1>2. Inv /\ [Next]_vars => Inv'
  BY NextIds, NextUse, NextVault
<1>3. Inv => VaultAheadOfMemory
  <2> SUFFICES ASSUME Inv, NEW i \in Vaulted \ crossed, pool[i] # 0, account[pool[i]].token # ""
               PROVE  \/ vault[i] = account[pool[i]].token
                      \/ \E w \in Worker : At(w, "memory") /\ me[w].id = i /\ me[w].token = vault[i]
    BY DEF VaultAheadOfMemory
  <2>1. i \in Id
    BY AdministrationAssumption DEF Vaulted, IdsInv, BaseInv, TypeOK
  <2> QED
    BY <2>1 DEF VaultInv, Careful, InVault, Holds, Awaited
<1> QED
  BY <1>1, <1>2, <1>3, PTL DEF Spec
=============================================================================
