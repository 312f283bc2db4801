----------------------------- MODULE RpcClient ------------------------------
(***************************************************************************)
(* The connection to bitcoind (rpc.go, config_rpc.go): calls that retry    *)
(* with growing delays, the health they leave behind, and the credentials  *)
(* read from the node's cookie file, which a watcher and the failing calls *)
(* reload when its stamp (time and size) changed.  The node writes a new   *)
(* cookie whenever it starts; a cookie and its stamp are one number here.  *)
(***************************************************************************)
EXTENDS Integers

CONSTANTS Calls, MaxCookies, MaxErrors

ASSUME RpcAssumption == MaxCookies \in Nat \ {0} /\ MaxErrors \in Nat /\ "watcher" \notin Calls

VARIABLES
    cookie,          \* the cookie file, 0 when it is missing
    boot,            \* config (finalizeRPCCredentials), create (NewRPCClient), up
    creds, stamp,    \* user and pass; cookieModTime and cookieSize
    unread,          \* the cookie whose stamp was noted although another had been read
    connected, unhealthy, disconnects, reconnects,
    rpcCall,         \* the progress of each call, and the credentials it sent
    reload,          \* the progress of each reloadCookieIfChanged, and what it has read
    errors

rpcVars == <<cookie, boot, creds, stamp, unread, connected, unhealthy, disconnects, reconnects,
             rpcCall, reload, errors>>
healthVars == <<connected, unhealthy, disconnects, reconnects>>

Reloaders == Calls \cup {"watcher"}
NoReload == [step |-> "none", stat |-> 0, read |-> 0]
NoCall == [step |-> "idle", cred |-> 0]

RpcTypeOK ==
    /\ cookie \in 0..MaxCookies /\ boot \in {"config", "create", "up"}
    /\ {creds, stamp, unread} \subseteq 0..MaxCookies
    /\ connected \in BOOLEAN /\ unhealthy \in BOOLEAN
    /\ disconnects \in 0..MaxErrors /\ reconnects \in 0..MaxErrors /\ errors \in 0..MaxErrors
    /\ rpcCall \in [Calls -> [step : {"idle", "sent", "failed", "lost", "retry", "good", "back", "done"},
                              cred : 0..MaxCookies]]
    /\ reload \in [Reloaders -> [step : {"none", "stat", "read"}, stat : 0..MaxCookies,
                                 read : 0..MaxCookies]]

RpcInit ==
    /\ cookie = 0 /\ boot = "config" /\ creds = 0 /\ stamp = 0 /\ unread = 0
    /\ connected = FALSE /\ unhealthy = FALSE /\ disconnects = 0 /\ reconnects = 0
    /\ rpcCall = [c \in Calls |-> NoCall] /\ reload = [r \in Reloaders |-> NoReload] /\ errors = 0

-----------------------------------------------------------------------------
\* bitcoind starts and writes its cookie.
NodeStarts ==
    /\ cookie < MaxCookies /\ cookie' = cookie + 1
    /\ UNCHANGED <<boot, creds, stamp, unread, healthVars, rpcCall, reload, errors>>

\* applyRPCCookieCredentials, and later initCookieStat, which notes the stamp of the
\* file and reads it only when there are no credentials.
ReadConfig ==
    /\ boot = "config" /\ boot' = "create" /\ creds' = cookie
    /\ UNCHANGED <<cookie, stamp, unread, healthVars, rpcCall, reload, errors>>
CreateClient ==
    /\ boot = "create" /\ boot' = "up" /\ stamp' = cookie
    /\ creds' = IF creds = 0 THEN cookie ELSE creds
    /\ unread' = IF creds \in {0, cookie} THEN 0 ELSE cookie
    /\ UNCHANGED <<cookie, healthVars, rpcCall, reload, errors>>

\* reloadCookieIfChanged: the file is looked at, read, and stored with the earlier stamp.
Stat(r) ==
    /\ reload[r].step = "none" /\ cookie > 0 /\ (cookie # stamp \/ creds = 0)
    /\ reload' = [reload EXCEPT ![r] = [step |-> "stat", stat |-> cookie, read |-> 0]]
    /\ UNCHANGED <<cookie, boot, creds, stamp, unread, healthVars, errors>>
ReadCookie(r) ==
    /\ reload[r].step = "stat"
    /\ reload' = [reload EXCEPT ![r].step = "read", ![r].read = cookie]
    /\ UNCHANGED <<cookie, boot, creds, stamp, unread, healthVars, rpcCall, errors>>
StoreCookie(r) ==
    /\ reload[r].step = "read"
    /\ creds' = reload[r].read /\ stamp' = reload[r].stat
    /\ reload' = [reload EXCEPT ![r] = NoReload]
    /\ UNCHANGED <<cookie, boot, unread, healthVars, rpcCall, errors>>

\* A tick of StartCookieWatcher
Watch == boot = "up" /\ Stat("watcher") /\ UNCHANGED rpcCall

-----------------------------------------------------------------------------
At(c, step) == rpcCall[c].step = step
Go(c, step) == rpcCall' = [rpcCall EXCEPT ![c].step = step]

\* performCall sends the credentials it finds.
SendCall(c) ==
    /\ boot = "up" /\ At(c, "idle") /\ rpcCall' = [rpcCall EXCEPT ![c] = [step |-> "sent", cred |-> creds]]
    /\ UNCHANGED <<cookie, boot, creds, stamp, unread, healthVars, reload, errors>>

\* The answer: success; no connection, a 5xx or a 401 (connectivity errors); the node
\* is warming up (retried as well); or an error of the method, which is returned.
Answered(c) ==
    /\ At(c, "sent")
    /\ \/ rpcCall[c].cred = cookie /\ Go(c, "good") /\ UNCHANGED errors
       \/ /\ errors < MaxErrors /\ errors' = errors + 1
          /\ \/ Go(c, "failed")
             \/ rpcCall[c].cred = cookie /\ (Go(c, "retry") \/ Go(c, "done"))
    /\ UNCHANGED <<cookie, boot, creds, stamp, unread, healthVars, reload>>

\* unhealthy.Swap, then the counter
CallFailed(c) ==
    /\ At(c, "failed") /\ unhealthy' = TRUE /\ Go(c, IF unhealthy THEN "retry" ELSE "lost")
    /\ UNCHANGED <<cookie, boot, creds, stamp, unread, connected, disconnects, reconnects,
                   reload, errors>>
CountLost(c) ==
    /\ At(c, "lost") /\ disconnects' = disconnects + 1 /\ Go(c, "retry")
    /\ UNCHANGED <<cookie, boot, creds, stamp, unread, connected, unhealthy, reconnects,
                   reload, errors>>
Succeeded(c) ==
    /\ At(c, "good") /\ unhealthy' = FALSE /\ Go(c, IF unhealthy THEN "back" ELSE "done")
    /\ connected' = (connected \/ ~unhealthy)
    /\ UNCHANGED <<cookie, boot, creds, stamp, unread, disconnects, reconnects, reload, errors>>
CountBack(c) ==
    /\ At(c, "back") /\ reconnects' = reconnects + 1 /\ connected' = TRUE /\ Go(c, "done")
    /\ UNCHANGED <<cookie, boot, creds, stamp, unread, unhealthy, disconnects, reload, errors>>

\* shouldRetry: the cookie is looked at, then the call sleeps and tries again, unless
\* its context ends.
Retry(c) ==
    /\ At(c, "retry") /\ reload[c] = NoReload
    /\ \/ Stat(c) /\ Go(c, "retry")
       \/ /\ Go(c, "idle") \/ Go(c, "done")
          /\ UNCHANGED <<cookie, boot, creds, stamp, unread, healthVars, reload, errors>>

Return(c) ==
    /\ At(c, "done") /\ reload[c] = NoReload /\ rpcCall' = [rpcCall EXCEPT ![c] = NoCall]
    /\ UNCHANGED <<cookie, boot, creds, stamp, unread, healthVars, reload, errors>>

RpcNext ==
    \/ NodeStarts \/ ReadConfig \/ CreateClient \/ Watch
    \/ \E r \in Reloaders : ReadCookie(r) \/ StoreCookie(r)
    \/ \E c \in Calls : \/ SendCall(c) \/ Answered(c) \/ CallFailed(c) \/ CountLost(c) \/ Succeeded(c)
                        \/ CountBack(c) \/ Retry(c) \/ Return(c)

RpcSpec == RpcInit /\ [][RpcNext]_rpcVars

-----------------------------------------------------------------------------
(* A client that would not reload the cookie file has the credentials in    *)
(* it, however the watcher, failing calls and restarts of the node          *)
(* interleave; not so when the node started between the reading of the      *)
(* configuration and the creation of the client, whose stamp then belongs   *)
(* to a cookie that was never read.  Every recovery counted follows a loss  *)
(* that is counted, or about to be (reloadCookieIfChanged,                  *)
(* callWithClientCtx).                                                      *)
CookieAndHealthAgree ==
    /\ boot = "up" /\ stamp = cookie /\ cookie \notin {0, unread} => creds = cookie
    /\ LET soon(step) == {c \in Calls : At(c, step)}
       IN  \A n \in 0..1 : (unhealthy <=> n = 1) /\ soon("lost") = {} /\ soon("back") = {} =>
                              disconnects = reconnects + n
=============================================================================
