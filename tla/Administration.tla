--------------------------- MODULE Administration ---------------------------
(* The life of accounts, their Copilot clients and their tokens under       *)
(* concurrent administration: enable and disable, create and delete a user, *)
(* the device login and the token API, logout, the refresh of one account   *)
(* or of all, and requests that start a client on demand.  pool.go,         *)
(* registry.go, login.go, the client part of copilot_http.go and the        *)
(* handlers of server.go.                                                    *)
(*                                                                           *)
(* Every handler runs in a goroutine of its own and takes a lock only for a  *)
(* map access, so a handler is a list of steps, todo[w], any of which may    *)
(* interleave with the steps of the others.  Accounts, backends and login    *)
(* flows are objects that a goroutine keeps using after they left the maps.  *)
EXTENDS Naturals, Sequences, FiniteSets, SequencesExt

CONSTANTS
    Id,           \* account ids
    Configured,   \* ids of the accounts in the configuration file
    Token,        \* token values
    Worker,       \* goroutines that serve administrators and requests
    Refresher,    \* the goroutine of RefreshLoop
    Scenes,       \* bound: the goroutines that work side by side, the operations the
                  \* workers perform, how many, and the tokens they hand in; and the
                  \* configuration, the same whenever an id is created: the ids with a
                  \* Key Vault secret, the token each is given by Token or TokenEnv,
                  \* and the one the environment has for it if it has no base directory
    MaxFaults     \* bound: failing client starts, lists and vault calls

Operation == {"enable", "disable", "create", "delete", "login", "poll", "setToken", "logout",
              "refresh", "chat"}

ASSUME AdministrationAssumption ==
    /\ Id # {} /\ IsFiniteSet(Configured) /\ Configured \subseteq Id
    /\ "" \notin Token /\ Refresher \notin Worker /\ MaxFaults \in Nat
    /\ \A s \in Scenes : /\ s.crew \subseteq Worker \cup {Refresher} /\ s.vaulted \subseteq Id
                         /\ s.operations \subseteq Operation /\ s.ops \in Nat /\ s.tokens \subseteq Token
                         /\ {s.given, s.ambient} \subseteq [Id -> Token \cup {""}]

VARIABLES
    account,  \* every account object made so far: [id, enabled, token (RuntimeToken), backend]
    back,     \* every backend made so far: [token, client, made, ready]
    running,  \* client processes <<backend, client>> that run
    pool,     \* PoolManager.Accounts: id -> account, 0 for none
    vault,    \* the Key Vault: id -> token, "" for none
    flow,     \* every device login so far: [status, used]
    states,   \* LoginManager.states: id -> flow, 0 for none
    index,    \* ids the model registry lists
    todo,     \* the steps each goroutine has left
    me,       \* the locals of each goroutine
    scene,    \* the one of Scenes this behaviour plays in
    ops, faults,
    raced,    \* history: a backend was given up, from its Close to its replacement,
              \* while another goroutine was at work
    cleared,  \* history: ids whose last token operation was a logout that ran alone
    crossed   \* history: ids with overlapping token operations, or whose secret was
              \* overwritten by a creation that is going to be refused

vars == <<account, back, running, pool, vault, flow, states, index, todo, me, scene, ops, faults, raced,
          cleared, crossed>>

Goroutine == Worker \cup {Refresher}
Vaulted == scene.vaulted
Step == {"enable", "disable", "start", "launch", "markReady", "markFailed", "unlist", "sdk", "list",
         "snapshot", "visit", "gather", "swapIndex", "store", "check", "install", "addStart", "abort",
         "clear", "dropState", "build", "close", "swap", "restart", "remove", "issue", "look", "exchange",
         "store", "memory", "authorize", "admit"}

(* RefreshAccount, RebuildBackend and applyToken as step lists.              *)
RefreshAccount == <<"unlist", "start", "sdk", "list">>
(* Mutant: the new backend is installed before the old one is closed.         *)
RebuildSwappingFirst == <<"build", "swap", "close", "restart">>
(* Mutant: the old backend is not closed.                                     *)
RebuildLeavingOld == <<"build", "swap", "restart">>
RebuildBackend == <<"build", "close", "swap", "restart">>
(* Mutant: the token is kept in memory before the vault has it.               *)
ApplyMemoryFirst == <<"memory", "store">> \o RebuildBackend
ApplyToken     == <<"store", "memory">> \o RebuildBackend

(* The handlers of the admin API, and a completion's use of a client.         *)
adminAccountEnable  == <<"enable", "start">> \o RefreshAccount
adminAccountDisable == <<"disable">> \o RefreshAccount
adminCreateUser     == <<"store", "check", "install", "addStart">> \o RefreshAccount
adminDeleteUser     == <<"clear", "dropState">> \o RebuildBackend \o <<"remove">> \o RefreshAccount
adminUserLogin      == <<"issue">>
adminUserLoginPoll  == <<"look", "exchange">> \o ApplyToken \o <<"authorize">> \o RefreshAccount
adminUserSetToken   == ApplyToken \o RefreshAccount
adminUserLogout     == <<"clear", "dropState">> \o RebuildBackend \o RefreshAccount
adminModelsRefreshAccount == RefreshAccount
sdkForParams        == <<"sdk">>

Program(op) ==
    CASE op = "enable"   -> adminAccountEnable
      [] op = "disable"  -> adminAccountDisable
      [] op = "create"   -> adminCreateUser
      [] op = "delete"   -> adminDeleteUser
      [] op = "login"    -> adminUserLogin
      [] op = "poll"     -> adminUserLoginPoll
      [] op = "setToken" -> adminUserSetToken
      [] op = "logout"   -> adminUserLogout
      [] op = "refresh"  -> adminModelsRefreshAccount
      [] op = "chat"     -> sdkForParams

(* Operations that can change an account's token.                            *)
TokenOps == {"create", "delete", "login", "poll", "setToken", "logout"}

Idle(w) == todo[w] = <<>>
NoLocals == [op |-> "none", id |-> CHOOSE i \in Id : TRUE, token |-> "", account |-> 0, backend |-> 0,
             client |-> 0, onError |-> "ignore", flow |-> 0, queue |-> {}, found |-> {}, alone |-> TRUE]

Backend(tok) == [token |-> tok, client |-> 0, made |-> 0, ready |-> FALSE]
Enabled(id) == pool[id] # 0 /\ account[pool[id]].enabled

(* AccountConfig.ResolveToken and the environment's token in buildBackend: the   *)
(* token a backend of the id is built with when the account holds `runtime'.     *)
ResolveToken(id, runtime) ==
    IF runtime # "" THEN runtime
    ELSE IF scene.given[id] # "" THEN scene.given[id]
    ELSE IF id \in Vaulted THEN vault[id] ELSE scene.ambient[id]

(* Only then is the vault asked; a secret that is absent or empty is an error.   *)
AsksVault(id, runtime) == runtime = "" /\ scene.given[id] = "" /\ id \in Vaulted

(* The configured accounts are installed and started, and the first refresh *)
(* has listed them; every secret they need was in the vault.                 *)
Init ==
    LET ids == SetToSeq(Configured)
    IN /\ scene \in Scenes
       /\ vault \in [Id -> Token \cup {""}]
       /\ \A i \in Id : /\ i \notin Vaulted => vault[i] = ""
                        /\ i \in Configured /\ AsksVault(i, "") => vault[i] # ""
       /\ account = [n \in DOMAIN ids |-> [id |-> ids[n], enabled |-> TRUE, token |-> "", backend |-> n]]
       /\ back = [n \in DOMAIN ids |-> [token |-> ResolveToken(ids[n], ""), client |-> 1, made |-> 1, ready |-> TRUE]]
       /\ running = {<<n, 1>> : n \in DOMAIN ids}
       /\ pool = [i \in Id |-> IF i \in Configured THEN CHOOSE n \in DOMAIN ids : ids[n] = i ELSE 0]
       /\ flow = <<>> /\ states = [i \in Id |-> 0] /\ index = Configured
       /\ todo = [w \in Goroutine |-> <<>>]
       /\ me = [w \in Goroutine |-> NoLocals]
       /\ ops = 0 /\ faults = 0 /\ raced = FALSE /\ cleared = {} /\ crossed = {}

-----------------------------------------------------------------------------
(* A goroutine goes on with `steps' and `locals'; at the end of a handler its    *)
(* locals are gone.  A logout that was alone from its first step to its last,   *)
(* and found a backend built with the account's token, is remembered in         *)
(* `cleared', which only a property reads.                                      *)
Rest(w) == Tail(todo[w])
At(w, step) == todo[w] # <<>> /\ Head(todo[w]) = step
Proceed(w, steps, locals) ==
    /\ todo' = [todo EXCEPT ![w] = steps]
    /\ me' = [me EXCEPT ![w] = IF steps = <<>> THEN NoLocals ELSE locals]
    /\ cleared' = IF steps = <<>> /\ me[w].op = "logout" /\ me[w].alone /\ pool[me[w].id] # 0
                  THEN cleared \cup {me[w].id} ELSE cleared
Continue(w) == Proceed(w, Rest(w), me[w])
Return(w)   == Proceed(w, <<>>, me[w])
Failing == faults < MaxFaults /\ faults' = faults + 1
Others(w) == \E v \in Goroutine \ {w} : ~Idle(v)
Replacing == \E v \in Worker : At(v, "swap")

clients  == <<back, running>>
accounts == <<account, pool>>
logins   == <<vault, flow, states, crossed>>

TokensAgree(id) ==
    pool[id] # 0 => back[account[pool[id]].backend].token = ResolveToken(id, account[pool[id]].token)

(* A request to the admin API or for a completion arrives.  Every handler but   *)
(* create, delete and poll answers 404 to an id that is not in the pool.  A     *)
(* user may be created without a token.                                         *)
Begin(w) ==
    \E op \in scene.operations, id \in Id, t \in scene.tokens \cup {""} :
        /\ w \in scene.crew /\ Idle(w) /\ ops < scene.ops
        /\ op \notin {"create", "delete", "poll"} => pool[id] # 0
        /\ t = "" => op = "create"
        /\ op \notin {"create", "setToken"} => t = CHOOSE x \in scene.tokens : TRUE
        /\ LET busy == {v \in Worker \ {w} : ~Idle(v) /\ me[v].id = id /\ me[v].op \in TokenOps}
           IN /\ me' = [v \in Goroutine |->
                       IF v = w THEN [NoLocals EXCEPT !.op = op, !.id = id, !.token = t,
                                                      !.account = pool[id], !.alone = busy = {} /\ TokensAgree(id)]
                       ELSE IF v \in busy /\ op \in TokenOps THEN [me[v] EXCEPT !.alone = FALSE]
                       ELSE me[v]]
              /\ crossed' = IF busy # {} /\ op \in TokenOps THEN crossed \cup {id} ELSE crossed
        /\ cleared' = IF op \in {"create", "setToken", "login"} THEN cleared \ {id} ELSE cleared
        /\ todo' = [todo EXCEPT ![w] = Program(op)]
        /\ ops' = ops + 1 /\ raced' = (raced \/ Replacing)
        /\ UNCHANGED <<accounts, clients, vault, flow, states, index, faults>>

-----------------------------------------------------------------------------
(* CopilotBackend.Start and Close.                                              *)

(* Start up to its first unlock: nothing to do when the backend is ready,       *)
(* otherwise the client is made if there is none and started outside the lock.  *)
BeginStart(w, b, onError) ==
    LET made == back[b].client = 0
        k == IF made THEN back[b].made + 1 ELSE back[b].client
        locals == [me[w] EXCEPT !.backend = b]
    IN IF back[b].ready
       THEN Proceed(w, Rest(w), locals) /\ UNCHANGED back
       ELSE /\ back' = [back EXCEPT ![b].client = k, ![b].made = IF made THEN @ + 1 ELSE @]
            /\ Proceed(w, <<"launch">> \o Rest(w), [locals EXCEPT !.client = k, !.onError = onError])

(* PoolManager.StartAccount: the account that has the id now.  AddAccount calls *)
(* it if the account it installed is enabled.                                   *)
StartAccount(w, step, onError) ==
    /\ At(w, step)
    /\ IF pool[me[w].id] = 0 \/ (step = "addStart" /\ ~account[me[w].account].enabled)
       THEN Continue(w) /\ UNCHANGED back
       ELSE BeginStart(w, account[pool[me[w].id]].backend, onError)
    /\ UNCHANGED <<accounts, running, logins, index, ops, faults, raced>>

(* CopilotBackend.sdk: the backend the account has now, started if need be.     *)
(* A ready backend without a client is left alone by Start.                     *)
Sdk(w) ==
    /\ At(w, "sdk")
    /\ BeginStart(w, account[me[w].account].backend, "ignore")
    /\ UNCHANGED <<accounts, running, logins, index, ops, faults, raced>>

(* client.Start, outside the lock.                                              *)
Launch(w) ==
    /\ At(w, "launch")
    /\ \/ /\ running' = running \cup {<<me[w].backend, me[w].client>>}
          /\ Proceed(w, <<"markReady">> \o Rest(w), me[w]) /\ UNCHANGED faults
       \/ /\ Failing
          /\ Proceed(w, <<"markFailed">> \o Rest(w), me[w]) /\ UNCHANGED running
    /\ UNCHANGED <<accounts, back, logins, index, ops, raced>>

(* Start takes the lock again: the backend is ready, whatever became of its     *)
(* client in the meantime.                                                      *)
Forgotten(locals) == [locals EXCEPT !.client = 0, !.onError = "ignore"]
MarkReady(w) ==
    /\ At(w, "markReady")
    /\ back' = [back EXCEPT ![me[w].backend].ready = TRUE]
    /\ Proceed(w, Rest(w), Forgotten(me[w]))
    /\ UNCHANGED <<accounts, running, logins, index, ops, faults, raced>>

(* A failed start is an error only without a token; AddAccount then takes the   *)
(* account out again, RebuildBackend returns the error, which ends a handler    *)
(* that applies a token and is ignored by a logout.                             *)
MarkFailed(w) ==
    /\ At(w, "markFailed")
    /\ back' = [back EXCEPT ![me[w].backend].ready = FALSE]
    /\ LET err == back[me[w].backend].token = "" /\ me[w].onError # "ignore"
           ends == err /\ me[w].onError = "fail" /\ me[w].op \notin {"logout", "delete"}
       IN Proceed(w, IF ends THEN <<>> ELSE IF err /\ me[w].onError = "abort" THEN <<"abort">> ELSE Rest(w),
                  Forgotten(me[w]))
    /\ UNCHANGED <<accounts, running, logins, index, ops, faults, raced>>

(* Close takes the client from the backend and stops it.                        *)
Close(w, b) ==
    /\ back' = [back EXCEPT ![b].client = 0, ![b].ready = FALSE]
    /\ running' = running \ {<<b, back[b].client>>}
    /\ raced' = (raced \/ Others(w))

-----------------------------------------------------------------------------
(* PoolManager: enable and disable, add, remove, rebuild.                       *)

(* SetEnabled finds the account, or the handler answers 404.                    *)
SetEnabled(w, step, enabled) ==
    /\ At(w, step)
    /\ IF pool[me[w].id] = 0
       THEN Return(w) /\ UNCHANGED account
       ELSE account' = [account EXCEPT ![pool[me[w].id]].enabled = enabled] /\ Continue(w)
    /\ UNCHANGED <<pool, clients, logins, index, ops, faults, raced>>

(* StoreToken, first in adminCreateUser for an account with a vault secret and  *)
(* first in applyToken: a failing vault ends the handler.  adminCreateUser      *)
(* stores the token before AddAccount finds the id taken and refuses.           *)
StoreToken(w) ==
    /\ At(w, "store")
    /\ LET kept == me[w].id \in Vaulted /\ me[w].token # ""
           refused == me[w].op = "create" /\ pool[me[w].id] # 0
       IN \/ /\ vault' = IF kept THEN [vault EXCEPT ![me[w].id] = me[w].token] ELSE vault
             /\ crossed' = IF kept /\ refused THEN crossed \cup {me[w].id} ELSE crossed
             /\ Continue(w) /\ UNCHANGED faults
          \/ kept /\ Failing /\ Return(w) /\ UNCHANGED <<vault, crossed>>
    /\ UNCHANGED <<accounts, clients, flow, states, index, ops, raced>>

(* AddAccount looks whether the id is taken, and lets go of the lock.           *)
CheckFree(w) ==
    /\ At(w, "check")
    /\ IF pool[me[w].id] = 0 THEN Continue(w) ELSE Return(w)
    /\ UNCHANGED <<accounts, clients, logins, index, ops, faults, raced>>

(* install: a backend with the account's token, a new account, the id is its.   *)
(* A user may be created disabled.                                              *)
Install(w) ==
    /\ At(w, "install")
    /\ LET id == me[w].id
           runtime == IF id \in Vaulted THEN "" ELSE me[w].token
       IN \E enabled \in BOOLEAN :
          /\ AsksVault(id, runtime) => vault[id] # ""
          /\ back' = Append(back, Backend(ResolveToken(id, runtime)))
          /\ account' = Append(account, [id |-> id, enabled |-> enabled, backend |-> Len(back) + 1,
                                         token |-> runtime])
          /\ pool' = [pool EXCEPT ![id] = Len(account) + 1]
          /\ raced' = (raced \/ pool[id] # 0)
          /\ Proceed(w, Rest(w), [me[w] EXCEPT !.account = Len(account) + 1])
    /\ UNCHANGED <<running, logins, index, ops, faults>>

(* It fails without a home, with an invalid mode, or for want of the secret.    *)
InstallFails(w) ==
    /\ At(w, "install")
    /\ \/ Failing
       \/ /\ AsksVault(me[w].id, IF me[w].id \in Vaulted THEN "" ELSE me[w].token)
          /\ vault[me[w].id] = "" /\ UNCHANGED faults
    /\ Return(w)
    /\ UNCHANGED <<accounts, clients, logins, index, ops, raced>>

(* AddAccount after a failed start: the id is freed and the backend closed.     *)
Abort(w) ==
    /\ At(w, "abort")
    /\ pool' = [pool EXCEPT ![me[w].id] = 0]
    /\ Close(w, account[me[w].account].backend)
    /\ Return(w)
    /\ UNCHANGED <<account, logins, index, ops, faults>>

RemoveAccount(w) ==
    /\ At(w, "remove")
    /\ LET id == me[w].id
       IN IF pool[id] = 0
          THEN Return(w) /\ UNCHANGED <<pool, clients, raced>>
          ELSE /\ pool' = [pool EXCEPT ![id] = 0]
               /\ Close(w, account[pool[id]].backend)
               /\ Continue(w)
    /\ UNCHANGED <<account, logins, index, ops, faults>>

(* RebuildBackend, with the account that has the id now; only the vault can     *)
(* fail it, which a logout ignores.                                             *)
AfterRebuild(steps) == LET i == CHOOSE i \in DOMAIN steps : steps[i] = "restart"
                       IN SubSeq(steps, i + 1, Len(steps))
BuildBackend(w) ==
    /\ At(w, "build")
    /\ LET a == pool[me[w].id]
       IN \/ a = 0 /\ Proceed(w, AfterRebuild(Rest(w)), me[w]) /\ UNCHANGED <<back, faults>>
          \/ /\ a # 0 /\ (AsksVault(me[w].id, account[a].token) => vault[me[w].id] # "")
             /\ back' = Append(back, Backend(ResolveToken(me[w].id, account[a].token)))
             /\ Proceed(w, Rest(w), [me[w] EXCEPT !.account = a, !.backend = Len(back) + 1])
             /\ UNCHANGED faults
          \/ /\ a # 0 /\ AsksVault(me[w].id, account[a].token)
             /\ Failing \/ (vault[me[w].id] = "" /\ UNCHANGED faults)
             /\ IF me[w].op \in {"logout", "delete"}
                THEN Proceed(w, AfterRebuild(Rest(w)), me[w]) ELSE Return(w)
             /\ UNCHANGED back
    /\ UNCHANGED <<accounts, running, logins, index, ops, raced>>

(* The backend the account has at this moment is closed, then it is replaced.   *)
CloseOld(w) ==
    /\ At(w, "close")
    /\ Close(w, account[me[w].account].backend)
    /\ Continue(w)
    /\ UNCHANGED <<accounts, logins, index, ops, faults>>

SwapBackend(w) ==
    /\ At(w, "swap")
    /\ account' = [account EXCEPT ![me[w].account].backend = me[w].backend]
    /\ raced' = (raced \/ Others(w))
    /\ IF account[me[w].account].enabled THEN Continue(w)
       ELSE Proceed(w, AfterRebuild(Rest(w)), me[w])
    /\ UNCHANGED <<pool, clients, logins, index, ops, faults>>

-----------------------------------------------------------------------------
(* LoginManager.                                                                *)

(* Start: the provider issues a device code, a new state replaces any other.    *)
Issue(w) ==
    /\ At(w, "issue")
    /\ \/ /\ flow' = Append(flow, [status |-> "pending", used |-> FALSE])
          /\ states' = [states EXCEPT ![me[w].id] = Len(flow) + 1] /\ UNCHANGED faults
       \/ Failing /\ UNCHANGED <<flow, states>>
    /\ Return(w)
    /\ UNCHANGED <<accounts, clients, vault, crossed, index, ops, raced>>

(* Poll reads the state under the lock and looks at it without; a settled       *)
(* login is only reported, and the handler refreshes after an authorized one.   *)
Look(w) ==
    /\ At(w, "look")
    /\ LET f == states[me[w].id]
       IN \/ f = 0 /\ Return(w) /\ UNCHANGED flow
          \/ /\ f # 0 /\ flow[f].status # "pending" /\ UNCHANGED flow
             /\ Proceed(w, IF flow[f].status = "authorized" THEN RefreshAccount ELSE <<>>, me[w])
          \/ /\ f # 0 /\ flow[f].status = "pending"
             /\ flow' = [flow EXCEPT ![f].status = "expired"] /\ Return(w)
          \/ /\ f # 0 /\ flow[f].status = "pending" /\ UNCHANGED flow
             /\ Proceed(w, Rest(w), [me[w] EXCEPT !.flow = f])
    /\ UNCHANGED <<accounts, clients, vault, states, crossed, index, ops, faults, raced>>

(* The provider answers: the token once, after the user agreed; an error when   *)
(* the code was used already; or not yet.  applyToken looks the account up.     *)
Exchange(w) ==
    /\ At(w, "exchange")
    /\ LET f == me[w].flow
           a == pool[me[w].id]
       IN \/ /\ ~flow[f].used /\ flow' = [flow EXCEPT ![f].used = TRUE]
             /\ IF a = 0 THEN Return(w) ELSE Proceed(w, Rest(w), [me[w] EXCEPT !.account = a])
          \/ ~flow[f].used /\ flow' = [flow EXCEPT ![f].status = "pending"] /\ Return(w)
          \/ flow[f].used /\ flow' = [flow EXCEPT ![f].status = "error"] /\ Return(w)
    /\ UNCHANGED <<accounts, clients, vault, states, crossed, index, ops, faults, raced>>

Authorize(w) ==
    /\ At(w, "authorize")
    /\ flow' = [flow EXCEPT ![me[w].flow].status = "authorized"]
    /\ Continue(w)
    /\ UNCHANGED <<accounts, clients, vault, states, crossed, index, ops, faults, raced>>

(* applyToken after the vault: the memory of the account it found.              *)
KeepToken(w) ==
    /\ At(w, "memory")
    /\ account' = [account EXCEPT ![me[w].account].token = me[w].token]
    /\ Continue(w)
    /\ UNCHANGED <<pool, clients, logins, index, ops, faults, raced>>

(* Logout: the token of the account that has the id goes, then the login state; *)
(* the backend is rebuilt if there was a token.                                 *)
ClearToken(w) ==
    /\ At(w, "clear")
    /\ LET a == pool[me[w].id]
       IN IF a = 0
          THEN Proceed(w, AfterRebuild(Rest(w)), me[w]) /\ UNCHANGED account
          ELSE /\ account' = [account EXCEPT ![a].token = ""]
               /\ Proceed(w, IF account[a].token # "" THEN Rest(w)
                              ELSE <<"dropState">> \o AfterRebuild(Rest(w)), me[w])
    /\ UNCHANGED <<pool, clients, logins, index, ops, faults, raced>>

(* Mutant: a logout leaves the pending device login.                            *)
KeepState(w) ==
    /\ At(w, "dropState")
    /\ Continue(w)
    /\ UNCHANGED <<accounts, clients, logins, index, ops, faults, raced>>
DropState(w) ==
    /\ At(w, "dropState")
    /\ states' = [states EXCEPT ![me[w].id] = 0]
    /\ Continue(w)
    /\ UNCHANGED <<accounts, clients, vault, flow, crossed, index, ops, faults, raced>>

-----------------------------------------------------------------------------
(* ModelRegistry.                                                               *)

(* RefreshAccount drops the id from the index; it goes on with the account it   *)
(* found, if that is enabled.                                                   *)
Unlist(w) ==
    /\ At(w, "unlist")
    /\ index' = index \ {me[w].id}
    /\ IF Enabled(me[w].id) THEN Proceed(w, Rest(w), [me[w] EXCEPT !.account = pool[me[w].id]])
       ELSE Return(w)
    /\ UNCHANGED <<accounts, clients, logins, ops, faults, raced>>

(* ListModels answers when the backend has a client that runs.                  *)
Connected(b) == back[b].ready /\ back[b].client # 0 /\ <<b, back[b].client>> \in running

ListAccount(w) ==
    /\ At(w, "list")
    /\ \/ Connected(me[w].backend) /\ index' = index \cup {me[w].id} /\ UNCHANGED faults
       \/ ~Connected(me[w].backend) /\ UNCHANGED <<index, faults>>
       \/ Connected(me[w].backend) /\ Failing /\ UNCHANGED index
    /\ Return(w)
    /\ UNCHANGED <<accounts, clients, logins, ops, raced>>

(* The ticker of RefreshLoop, and Refresh: a snapshot of the accounts, each     *)
(* listed in turn, and the index replaced at the end by what was found.         *)
TakeSnapshot ==
    /\ Refresher \in scene.crew /\ Idle(Refresher)
    /\ todo' = [todo EXCEPT ![Refresher] = <<"visit">>]
    /\ me' = [me EXCEPT ![Refresher] = [NoLocals EXCEPT !.queue = {pool[i] : i \in Id} \ {0}]]
    /\ raced' = (raced \/ Replacing)
    /\ UNCHANGED <<accounts, clients, logins, index, ops, faults, cleared>>

(* Mutant: what was found is added to the index instead of replacing it.        *)
VisitMerging(w) ==
    /\ At(w, "visit")
    /\ IF me[w].queue = {}
       THEN index' = index \cup me[w].found /\ Return(w)
       ELSE /\ \E a \in me[w].queue :
                 Proceed(w, IF account[a].enabled THEN <<"sdk", "gather", "visit">> ELSE <<"visit">>,
                         [me[w] EXCEPT !.queue = @ \ {a}, !.account = a])
            /\ UNCHANGED index
    /\ UNCHANGED <<accounts, clients, logins, ops, faults, raced>>
Visit(w) ==
    /\ At(w, "visit")
    /\ IF me[w].queue = {}
       THEN index' = me[w].found /\ Return(w)
       ELSE /\ \E a \in me[w].queue :
                 Proceed(w, IF account[a].enabled THEN <<"sdk", "gather", "visit">> ELSE <<"visit">>,
                         [me[w] EXCEPT !.queue = @ \ {a}, !.account = a])
            /\ UNCHANGED index
    /\ UNCHANGED <<accounts, clients, logins, ops, faults, raced>>

Gather(w) ==
    /\ At(w, "gather")
    /\ \/ /\ Connected(me[w].backend) /\ UNCHANGED faults
          /\ Proceed(w, Rest(w), [me[w] EXCEPT !.found = @ \cup {account[me[w].account].id}])
       \/ ~Connected(me[w].backend) /\ Continue(w) /\ UNCHANGED faults
       \/ Connected(me[w].backend) /\ Failing /\ Continue(w)
    /\ UNCHANGED <<accounts, clients, logins, index, ops, raced>>

-----------------------------------------------------------------------------
Work(w) ==
    \/ StartAccount(w, "start", "ignore") \/ StartAccount(w, "addStart", "abort")
    \/ StartAccount(w, "restart", "fail")
    \/ Sdk(w) \/ Launch(w) \/ MarkReady(w) \/ MarkFailed(w)
    \/ SetEnabled(w, "enable", TRUE) \/ SetEnabled(w, "disable", FALSE)
    \/ CheckFree(w) \/ Install(w) \/ InstallFails(w) \/ Abort(w) \/ RemoveAccount(w)
    \/ BuildBackend(w) \/ CloseOld(w) \/ SwapBackend(w)
    \/ Issue(w) \/ Look(w) \/ Exchange(w) \/ Authorize(w)
    \/ StoreToken(w) \/ KeepToken(w) \/ ClearToken(w) \/ DropState(w)
    \/ Unlist(w) \/ ListAccount(w) \/ Visit(w) \/ Gather(w)

Next == /\ TakeSnapshot \/ (\E w \in Worker : Begin(w)) \/ (\E w \in Goroutine : Work(w))
        /\ UNCHANGED scene

Spec == Init /\ [][Next]_vars /\ WF_vars(TakeSnapshot /\ UNCHANGED scene)
        /\ \A w \in Goroutine : WF_vars(Work(w) /\ UNCHANGED scene)

-----------------------------------------------------------------------------
(* Start marks a backend ready after it let go of the lock, so a Close in       *)
(* between leaves it ready without a client, and such a backend never starts    *)
(* again.  That only ever befalls a backend that is on its way out: one the     *)
(* pool keeps can always be started.  RebuildBackend, CopilotBackend.Start.     *)
PooledBackendUsable ==
    \A i \in Id : pool[i] # 0 =>
        LET b == account[pool[i]].backend
        IN back[b].ready /\ back[b].client = 0 =>
             \E w \in Worker : At(w, "swap") /\ me[w].account = pool[i]

(* A client process that no pooled account can reach runs until the gateway     *)
(* ends.  Rebuilding, deleting and failed creation leave none behind unless     *)
(* they met another goroutine at work.  CopilotBackend.Close, AddAccount.       *)
LeakNeedsOverlap ==
    ~raced /\ (\A w \in Goroutine : Idle(w)) =>
        \A p \in running : \E i \in Id :
            /\ pool[i] # 0 /\ account[pool[i]].backend = p[1] /\ back[p[1]].client = p[2]

(* After a logout that no other token operation of the id overlapped, the       *)
(* account holds no token that was handed in, until the next one is or a login  *)
(* starts: a poll of an older device flow finds nothing to apply.  Its backend  *)
(* has the token it would have had without any login, the one of the            *)
(* configuration or of the environment, if that is what there is.  A vault's    *)
(* secret survives the logout, so nothing is said of a backend that reads it.   *)
(* The logout must have found the backend built with the token in memory:       *)
(* Logout rebuilds only if there is a token in memory, so after a SetToken and  *)
(* a logout that overlapped, the backend may keep a token that no later logout  *)
(* takes away.  LoginManager.Logout, Poll.                                      *)
LogoutTakesTheToken ==
    \A i \in cleared : pool[i] # 0 =>
        /\ account[pool[i]].token = ""
        /\ ~AsksVault(i, "") => back[account[pool[i]].backend].token = ResolveToken(i, "")

(* The token in memory of a pooled vault account is the one in the vault, or     *)
(* the vault has the newer one, which is about to replace it: a restart at any   *)
(* moment, or a vault that fails, loses no token that was handed in.  That holds *)
(* as long as no two token operations of the id overlap, for each makes its two  *)
(* writes unsynchronised with the other's, and no creation that will be refused  *)
(* overwrites the secret.  LoginManager.applyToken.                              *)
VaultAheadOfMemory ==
    \A i \in Vaulted \ crossed : pool[i] # 0 /\ account[pool[i]].token # "" =>
        \/ vault[i] = account[pool[i]].token
        \/ \E w \in Worker : At(w, "memory") /\ me[w].id = i /\ me[w].token = vault[i]

(* When administrators and faults stop, the refresh loop makes the index list    *)
(* exactly the enabled accounts of the pool, whatever interleavings went before. *)
IndexConverges == Refresher \in scene.crew => <>[](index = {i \in Id : Enabled(i)})
=============================================================================
