---------------------------- MODULE OneTimeCodes ----------------------------
(***************************************************************************)
(* The one-time codes that link a Discord user (one_time_code.go).         *)
(*                                                                         *)
(* Codes live in memory, at most one for a user, and expire.  At shutdown  *)
(* those left are written to the state database, and at the next start     *)
(* they are read and the table is cleared.  Requests are still served      *)
(* while they are being written, a statement may fail, and the process may *)
(* stop at any point.                                                      *)
(***************************************************************************)
EXTENDS Integers, FiniteSets, FiniteSetsExt

CONSTANTS
    Owners,        \* users of the web page
    CodeLimit,     \* maxOneTimeCodesInMemory
    Lifetime,      \* oneTimeCodeTTL, in ticks
    MaxIssued,     \* bound on the codes issued
    MaxTime, MaxStarts, MaxDbFaults

ASSUME OneTimeCodesAssumption ==
    /\ CodeLimit \in Nat \ {0} /\ Lifetime \in Nat \ {0}
    /\ MaxIssued \in Nat /\ MaxTime \in Nat /\ MaxStarts \in Nat /\ MaxDbFaults \in Nat

VARIABLES
    time,
    process,    \* "starting", "clearing", "serving", "saving", "writing", "saved", "down"
    codes,      \* oneTimeCodes
    table,      \* rows of one_time_codes
    batch,      \* what was read from the table, or is to be written to it
    issued,     \* codes issued: each is the number of its issue
    spent,      \* the codes redeemed, replaced or cleared so far
    late,       \* those spent after the batch was taken
    again,      \* codes redeemed although they were spent
    kept,       \* the table was not cleared after it was read, or before a save
    starts, dbFaults

codeVars == <<time, process, codes, table, batch, issued, spent, late, again, kept,
              starts, dbFaults>>

Entry == [user : Owners, code : 1..MaxIssued, expires : 0..MaxTime + Lifetime]

CodesTypeOK ==
    /\ codes \subseteq Entry /\ table \subseteq Entry /\ batch \subseteq Entry
    /\ process \in {"starting", "clearing", "serving", "saving", "writing", "saved", "down"}
    /\ \A e, f \in codes : e.user = f.user => e = f
    /\ Cardinality(codes) <= CodeLimit

CodesInit ==
    /\ time = 0 /\ process = "serving" /\ codes = {} /\ table = {} /\ batch = {}
    /\ issued = 0 /\ spent = {} /\ late = {} /\ again = {} /\ kept = FALSE
    /\ starts = 0 /\ dbFaults = 0

Serving == process \in {"serving", "saving", "writing", "saved"}

\* Codes that are redeemed, replaced or cleared
Spend(C) ==
    /\ spent' = spent \cup C
    /\ late' = IF process \in {"writing", "saved"} THEN late \cup C ELSE late

\* cleanupExpiredOneTimeCodesLocked
Live(C) == {e \in C : time <= e.expires}

\* evictOneTimeCodesLocked: the oldest go until one more has room.
Newest(C, n) ==
    {e \in C : Cardinality({f \in C : f.expires > e.expires
                                      \/ (f.expires = e.expires /\ f.code > e.code)}) < n}

-----------------------------------------------------------------------------
TimeTicks ==
    /\ time < MaxTime /\ time' = time + 1
    /\ UNCHANGED <<process, codes, table, batch, issued, spent, late, again, kept, starts,
                   dbFaults>>

\* createNewOneTimeCode, whose generator returns an unused code
Issue(u) ==
    /\ Serving /\ issued < MaxIssued /\ issued' = issued + 1
    /\ LET others == {e \in Live(codes) : e.user # u} IN
       codes' = Newest(others, CodeLimit - 1)
                    \cup {[user |-> u, code |-> issued', expires |-> time + Lifetime]}
    /\ Spend({e.code : e \in {f \in codes : f.user = u}})
    /\ UNCHANGED <<time, process, table, batch, again, kept, starts, dbFaults>>

\* clearOneTimeCode, by the user it was made for
Clear(e) ==
    /\ Serving /\ e \in Live(codes)
    /\ codes' = Live(codes) \ {e} /\ Spend({e.code})
    /\ UNCHANGED <<time, process, table, batch, issued, again, kept, starts, dbFaults>>

\* redeemOneTimeCode with a code that is known
Redeem(e) ==
    /\ Serving /\ e \in Live(codes)
    /\ codes' = Live(codes) \ {e} /\ Spend({e.code})
    /\ again' = again \cup ({e.code} \cap spent)
    /\ UNCHANGED <<time, process, table, batch, issued, kept, starts, dbFaults>>

\* startOneTimeCodeJanitor
Janitor ==
    /\ Serving /\ codes # Live(codes) /\ codes' = Live(codes)
    /\ UNCHANGED <<time, process, table, batch, issued, spent, late, again, kept, starts,
                   dbFaults>>

-----------------------------------------------------------------------------
\* A statement succeeds, or fails and its error is only logged.
DbOutcome(ok) == ok \/ dbFaults < MaxDbFaults
CountDbFault(ok) == dbFaults' = IF ok THEN dbFaults ELSE dbFaults + 1

\* persistOneTimeCodesToDB, when the context is done
Stop ==
    /\ process = "serving" /\ process' = "saving"
    /\ UNCHANGED <<time, codes, table, batch, issued, spent, late, again, kept, starts,
                   dbFaults>>
ClearTable(ok) ==
    /\ process = "saving" /\ DbOutcome(ok) /\ CountDbFault(ok)
    /\ table' = (IF ok THEN {} ELSE table) /\ kept' = (kept \/ ~ok)
    /\ codes' = Live(codes) /\ batch' = Live(codes) /\ process' = "writing"
    /\ UNCHANGED <<time, issued, spent, late, again, starts>>
WriteBatch(ok) ==
    /\ process = "writing" /\ DbOutcome(ok) /\ CountDbFault(ok)
    /\ table' = IF ~ok THEN table
                ELSE batch \cup {e \in table : \A f \in batch : f.user # e.user}
    /\ process' = "saved" /\ batch' = {} /\ UNCHANGED codes
    /\ UNCHANGED <<time, issued, spent, late, again, kept, starts>>

\* The process stops at any point; what is in memory is gone.
CodesCrash ==
    /\ process # "down" /\ process' = "down" /\ codes' = {} /\ batch' = {}
    /\ UNCHANGED <<time, table, issued, spent, late, again, kept, starts, dbFaults>>

\* loadOneTimeCodesFromDB; a row that cannot be read is skipped, and when the
\* query fails nothing is loaded and nothing is cleared.
Start(ok) ==
    /\ process = "down" /\ starts < MaxStarts /\ starts' = starts + 1
    /\ DbOutcome(ok) /\ CountDbFault(ok)
    /\ process' = IF ok THEN "clearing" ELSE "serving"
    /\ batch' = (IF ok THEN table ELSE {}) /\ kept' = (kept \/ ~ok)
    /\ UNCHANGED <<time, codes, table, issued, spent, late, again>>
Load(ok) ==
    /\ process = "clearing" /\ DbOutcome(ok) /\ CountDbFault(ok)
    /\ table' = (IF ok THEN {} ELSE table) /\ kept' = (kept \/ ~ok)
    /\ \E C \in SUBSET Live(batch) :
          /\ Cardinality(C) = Min({CodeLimit, Cardinality(Live(batch))})
          /\ codes' = Newest(C, CodeLimit - 1)
    /\ process' = "serving" /\ batch' = {}
    /\ UNCHANGED <<time, issued, spent, late, again, starts>>

CodesNext ==
    \/ TimeTicks \/ Janitor \/ Stop \/ CodesCrash
    \/ \E u \in Owners : Issue(u)
    \/ \E e \in codes : Clear(e) \/ Redeem(e)
    \/ \E ok \in BOOLEAN : ClearTable(ok) \/ WriteBatch(ok) \/ Start(ok) \/ Load(ok)

CodesSpec == CodesInit /\ [][CodesNext]_codeVars

-----------------------------------------------------------------------------
(* A code that was redeemed, replaced or cleared is not accepted again,     *)
(* across any number of restarts, unless that happened while the codes in   *)
(* memory were already being saved, or the database failed to read or clear *)
(* its table (persistOneTimeCodesToDB, loadOneTimeCodesFromDB).             *)
SpentCodesStaySpent == again \subseteq late \/ kept
=============================================================================
