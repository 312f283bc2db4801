----------------------------- MODULE LiveConfig -----------------------------
(***************************************************************************)
(* The configuration in memory and on disk (status_server_admin_*.go,      *)
(* config_load.go, main.go).  Admin requests read the status server's      *)
(* copy, change it and publish it, first to the job manager and then to    *)
(* the status server; they save it by moving config.toml aside and writing *)
(* the overlay files one by one; SIGUSR2 loads the files again and tells   *)
(* the status server only.  Nothing orders two of these with each other.   *)
(***************************************************************************)
EXTENDS Integers

CONSTANTS Admins, MaxRequests, MaxEdits, MaxReloads, MaxConfigFaults, MaxConfigStops

ASSUME LiveConfigAssumption ==
    /\ "signal" \notin Admins
    /\ \A n \in {MaxRequests, MaxEdits, MaxReloads, MaxConfigFaults, MaxConfigStops} : n \in Nat

Missing == -1
Writers == Admins \cup {"signal"}

VARIABLES
    poolUp,
    configFile, configBak,  \* config.toml and config.toml.bak: the payout address, or Missing
    tuningFile,             \* services.toml, policy.toml and tuning.toml: the form's settings
    live, jobPolicy,        \* cfg of the status server; cfg and payoutScript of the job manager
    signedIn,               \* adminSessions
    writer,                 \* of each request and of the signal loop: where it is, what it holds
    overtaken,              \* the writers that hold a copy older than the one now published
    savesCrossed,             \* an overtaken writer has published, or two have rewritten at once
    reloaded,               \* a reload has been published since the last apply
    intended,               \* each setting as an apply, a reload or a start last gave it
    requests, configSteps   \* counters for the bounds

fileVars == <<configFile, configBak, tuningFile>>
policyVars == <<live, jobPolicy, reloaded, intended>>
liveConfigVars == <<poolUp, fileVars, policyVars, signedIn, writer, overtaken, savesCrossed,
                    requests, configSteps>>

Resting == [at |-> "idle", cfg |-> [payout |-> 0, tuning |-> 0]]

LiveConfigInit ==
    /\ poolUp = TRUE /\ configFile = 0 /\ configBak = Missing /\ tuningFile = 0
    /\ live = [payout |-> 0, tuning |-> 0] /\ jobPolicy = live /\ intended = live
    /\ signedIn = {} /\ writer = [w \in Writers |-> Resting] /\ overtaken = {}
    /\ savesCrossed = FALSE /\ reloaded = FALSE
    /\ requests = 0 /\ configSteps = [edits |-> 0, reloads |-> 0, faults |-> 0, stops |-> 0]

Configs == [payout : 0..MaxEdits, tuning : 0..MaxRequests]

LiveConfigTypeOK ==
    /\ live \in Configs /\ jobPolicy \in Configs /\ intended \in Configs
    /\ configFile \in 0..MaxEdits \cup {Missing} /\ configBak \in 0..MaxEdits \cup {Missing}
    /\ tuningFile \in 0..MaxRequests /\ requests \in 0..MaxRequests
    /\ signedIn \subseteq Admins /\ overtaken \subseteq Writers
    /\ {poolUp, savesCrossed, reloaded} \subseteq BOOLEAN
    /\ \A w \in Writers : writer[w].cfg \in Configs /\ writer[w].at \in
         {"idle", "install", "publish", "stat", "drop", "aside", "place", "overlays", "merge", "tell"}

Goes(w, at) == writer' = [writer EXCEPT ![w].at = at]
Reads(w, at, cfg) == /\ writer' = [writer EXCEPT ![w] = [at |-> at, cfg |-> cfg]]
                     /\ overtaken' = overtaken \ {w}
Ends(w) == writer' = [writer EXCEPT ![w] = Resting] /\ overtaken' = overtaken \ {w}
CountStep(step) == configSteps' = [configSteps EXCEPT ![step] = @ + 1]
FaultStep == configSteps.faults < MaxConfigFaults /\ CountStep("faults")

Rewriting == {w \in Writers : writer[w].at \in {"stat", "drop", "aside", "place"}}

\* createAdminSession, invalidateAdminSession and the pruning of what has expired.
SignIn(a) == /\ poolUp /\ a \notin signedIn /\ signedIn' = signedIn \cup {a}
             /\ UNCHANGED <<poolUp, fileVars, policyVars, writer, overtaken, savesCrossed, requests, configSteps>>
SignOut(a) == /\ poolUp /\ a \in signedIn /\ signedIn' = signedIn \ {a}
              /\ UNCHANGED <<poolUp, fileVars, policyVars, writer, overtaken, savesCrossed, requests, configSteps>>

\* applyAdminSettingsForm, validateConfig and adminSensitiveFieldsChanged: a form that
\* they refuse changes nothing.
FormApplied(cfg, value) == [cfg EXCEPT !.tuning = value]
SensitiveKept(cfg, next) == next.payout = cfg.payout

\* handleAdminApplySettings up to publishRuntimeConfig
BeginApply(a) ==
    /\ poolUp /\ a \in signedIn /\ writer[a].at = "idle" /\ requests < MaxRequests
    /\ requests' = requests + 1
    /\ LET next == FormApplied(live, requests + 1)
       IN  SensitiveKept(live, next) /\ Reads(a, "install", next)
    /\ UNCHANGED <<poolUp, fileVars, policyVars, signedIn, savesCrossed, configSteps>>

\* handleAdminPersist up to rewriteConfigFile
BeginSave(a) ==
    /\ poolUp /\ a \in signedIn /\ writer[a].at = "idle" /\ requests < MaxRequests
    /\ requests' = requests + 1
    /\ Reads(a, "stat", live) /\ savesCrossed' = (savesCrossed \/ Rewriting # {})
    /\ UNCHANGED <<poolUp, fileVars, policyVars, signedIn, configSteps>>

\* ApplyRuntimeConfig, under applyMu.
Install(a) ==
    /\ poolUp /\ writer[a].at = "install" /\ jobPolicy' = writer[a].cfg /\ Goes(a, "publish")
    /\ UNCHANGED <<poolUp, fileVars, live, reloaded, intended, signedIn, overtaken, savesCrossed,
                   requests, configSteps>>

\* UpdateConfig by w: whoever holds an earlier copy is overtaken.
Publishes(w) ==
    /\ live' = writer[w].cfg /\ savesCrossed' = (savesCrossed \/ w \in overtaken)
    /\ writer' = [writer EXCEPT ![w] = Resting]
    /\ overtaken' = {v \in Writers \ {w} : writer[v].at \in {"install", "publish", "merge", "tell"}}

PublishPolicy(a) ==
    /\ poolUp /\ writer[a].at = "publish" /\ Publishes(a)
    /\ reloaded' = FALSE /\ intended' = [intended EXCEPT !.tuning = writer[a].cfg.tuning]
    /\ UNCHANGED <<poolUp, fileVars, jobPolicy, signedIn, requests, configSteps>>

\* rewriteConfigFile once the temporary file is written: stat, remove the .bak, rename the
\* file to .bak, rename the temporary file.  An error ends the request where it stands.
SaveConfig(a) ==
    /\ poolUp
    /\ \/ /\ writer[a].at = "stat" /\ UNCHANGED <<fileVars, overtaken>>
          /\ Goes(a, IF configFile = Missing THEN "place" ELSE "drop")
       \/ /\ writer[a].at = "drop" /\ configBak' = Missing /\ Goes(a, "aside")
          /\ UNCHANGED <<configFile, tuningFile, overtaken>>
       \/ /\ writer[a].at = "aside" /\ configFile # Missing
          /\ configBak' = configFile /\ configFile' = Missing /\ Goes(a, "place")
          /\ UNCHANGED <<tuningFile, overtaken>>
       \/ /\ writer[a].at = "aside" /\ configFile = Missing /\ Ends(a) /\ UNCHANGED fileVars
       \/ /\ writer[a].at = "place" /\ configFile' = writer[a].cfg.payout /\ Goes(a, "overlays")
          /\ UNCHANGED <<configBak, tuningFile, overtaken>>
    /\ UNCHANGED <<poolUp, policyVars, signedIn, savesCrossed, requests, configSteps>>

\* rewriteServicesFile, rewritePolicyFile, rewriteTuningFile
SaveOverlays(a) ==
    /\ poolUp /\ writer[a].at = "overlays" /\ tuningFile' = writer[a].cfg.tuning /\ Ends(a)
    /\ UNCHANGED <<poolUp, configFile, configBak, policyVars, signedIn, savesCrossed, requests,
                   configSteps>>

SaveFails(a) ==
    /\ poolUp /\ writer[a].at \in {"stat", "drop", "aside", "place", "overlays"}
    /\ FaultStep /\ Ends(a)
    /\ UNCHANGED <<poolUp, fileVars, policyVars, signedIn, savesCrossed, requests>>

\* SIGUSR2: loadConfig leaves the process when config.toml is missing, then reads the
\* overlays; reloadStatusConfig may still refuse the result.
Exits == /\ poolUp' = FALSE /\ signedIn' = {} /\ overtaken' = {}
         /\ writer' = [w \in Writers |-> Resting]

Reload ==
    /\ poolUp /\ writer["signal"].at = "idle"
    /\ configSteps.reloads < MaxReloads /\ CountStep("reloads")
    /\ \/ /\ configFile # Missing /\ Reads("signal", "merge", [payout |-> configFile, tuning |-> 0])
          /\ UNCHANGED <<poolUp, signedIn>>
       \/ configFile = Missing /\ Exits
    /\ UNCHANGED <<fileVars, policyVars, savesCrossed, requests>>

ReadOverlays ==
    /\ poolUp /\ writer["signal"].at = "merge"
    /\ writer' = [writer EXCEPT !["signal"] =
                     [at |-> "tell", cfg |-> [@.cfg EXCEPT !.tuning = tuningFile]]]
    /\ UNCHANGED <<poolUp, fileVars, policyVars, signedIn, overtaken, savesCrossed, requests, configSteps>>

TellStatus ==
    /\ poolUp /\ writer["signal"].at = "tell"
    /\ \/ /\ Publishes("signal") /\ reloaded' = TRUE /\ intended' = writer["signal"].cfg
       \/ Ends("signal") /\ UNCHANGED <<live, savesCrossed, reloaded, intended>>
    /\ UNCHANGED <<poolUp, fileVars, jobPolicy, signedIn, requests, configSteps>>

\* The operator edits config.toml, or copies the .bak back while the pool is down.
EditConfig ==
    /\ configSteps.edits < MaxEdits /\ configFile # Missing /\ Rewriting = {}
    /\ CountStep("edits") /\ configFile' = configSteps.edits + 1
    /\ UNCHANGED <<poolUp, configBak, tuningFile, policyVars, signedIn, writer, overtaken,
                   savesCrossed, requests>>
RestoreBackup ==
    /\ ~poolUp /\ configFile = Missing /\ configBak # Missing /\ configFile' = configBak
    /\ UNCHANGED <<poolUp, configBak, tuningFile, policyVars, signedIn, writer, overtaken,
                   savesCrossed, requests, configSteps>>

StopPool == /\ poolUp /\ configSteps.stops < MaxConfigStops /\ CountStep("stops") /\ Exits
            /\ UNCHANGED <<fileVars, policyVars, savesCrossed, requests>>

StartPool ==
    /\ ~poolUp /\ configFile # Missing /\ poolUp' = TRUE
    /\ live' = [payout |-> configFile, tuning |-> tuningFile]
    /\ jobPolicy' = live' /\ intended' = live' /\ reloaded' = FALSE /\ savesCrossed' = FALSE
    /\ UNCHANGED <<fileVars, signedIn, writer, overtaken, requests, configSteps>>

LiveConfigNext ==
    \/ \E a \in Admins : \/ SignIn(a) \/ SignOut(a) \/ BeginApply(a) \/ BeginSave(a) \/ Install(a)
                         \/ PublishPolicy(a) \/ SaveConfig(a) \/ SaveOverlays(a) \/ SaveFails(a)
    \/ Reload \/ ReadOverlays \/ TellStatus
    \/ EditConfig \/ RestoreBackup \/ StopPool \/ StartPool

LiveConfigSpec == LiveConfigInit /\ [][LiveConfigNext]_liveConfigVars

-----------------------------------------------------------------------------
(* While no two writers have crossed: the pool pays and builds jobs by the  *)
(* configuration it shows, once the one publication under way has ended and *)
(* unless a reload came after the last apply; what is shown is what was     *)
(* published last, and an apply keeps the settings it does not ask for,     *)
(* those a reload brought among them (a reload takes every setting from the *)
(* files, so it drops an apply that was not saved); and config.toml or its  *)
(* .bak always holds a configuration to start from. (publishRuntimeConfig,  *)
(* reloadStatusConfig, rewriteConfigFile.)                                  *)
ConfigHolds ==
    ~savesCrossed =>
      /\ configFile # Missing \/ configBak # Missing
      /\ poolUp => live = intended
      /\ poolUp /\ ~reloaded /\ (\A a \in Admins : writer[a].at # "publish") => jobPolicy = live
=============================================================================
