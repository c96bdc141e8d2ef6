----------------------------- MODULE SamlToggle ------------------------------
(***************************************************************************)
(* mintDashboardsCredential of cf-metrics and cf-otel: SAML is switched    *)
(* off on a shared Cloud Logging instance for as long as it takes to mint  *)
(* a service key, and the parameters that were read before are written     *)
(* back.  The instance is external: it applies an accepted update later    *)
(* and refuses another one until then.  A cf command that is killed after  *)
(* a minute may have been carried out.                                     *)
(***************************************************************************)
EXTENDS Naturals

CONSTANTS
    Mints,           \* the commands that mint a credential on the instance
    Otel,            \* those of them that are cf-otel's
    MaxEdits         \* bound: edits of the instance by its administrator

ASSUME MintAssumption == Otel \subseteq Mints /\ MaxEdits \in Nat

VARIABLES
    instance,        \* its parameters, the update it is applying, how the last one ended
    mint,            \* each command: where it is, what it has read, got and reported
    keys,            \* the commands whose service key exists
    wanted,          \* history: the parameters its administrator wants
    disturbed        \* history: what has happened that a mint does not reckon with

samlvars == <<instance, mint, keys, wanted, disturbed>>

Params == [saml : BOOLEAN, rest : 0..MaxEdits]
NoUpdate == [saml |-> FALSE, rest |-> MaxEdits + 1]   \* no parameters of the instance

MintPcs == {"idle", "disable", "confirmOff", "create", "readKey", "restore", "confirmOn",
            "cleanUp", "done", "killed"}
Mint == [at : MintPcs, read : Params, minted : BOOLEAN, named : BOOLEAN,
         critical : BOOLEAN, keyTold : BOOLEAN]
Underway == {m \in Mints : mint[m].at \notin {"idle", "done", "killed"}}

SamlInit ==
    /\ wanted \in {[saml |-> on, rest |-> 0] : on \in BOOLEAN}
    /\ instance = [params |-> wanted, applying |-> NoUpdate, succeeded |-> TRUE]
    /\ mint = [m \in Mints |-> [at |-> "idle", read |-> wanted, minted |-> FALSE,
                                named |-> FALSE, critical |-> FALSE, keyTold |-> FALSE]]
    /\ keys = {} /\ disturbed = {}

MintAt(m, from, to) == mint[m].at = from /\ mint' = [mint EXCEPT ![m].at = to]

(***************************************************************************)
(* issueSamlUpdate: a single attempt, which is answered, or fails whether  *)
(* or not the instance has accepted it.                                    *)
(***************************************************************************)
Accepts(next) ==
    /\ instance.applying = NoUpdate
    /\ instance' = [instance EXCEPT !.applying = next]

FailsToIssue(next) == UNCHANGED instance \/ Accepts(next)

ReadsParams(m) ==
    /\ mint[m].at = "idle"
    /\ mint' = [mint EXCEPT ![m].at = "disable", ![m].read = instance.params]
    /\ disturbed' = IF Underway # {} \/ instance.applying # NoUpdate
                     THEN disturbed \cup {"overlap"} ELSE disturbed
    /\ UNCHANGED <<instance, keys, wanted>>

SamlOff(m) == [mint[m].read EXCEPT !.saml = FALSE]

DisablesSaml(m) ==
    /\ MintAt(m, "disable", "confirmOff")
    /\ Accepts(SamlOff(m))
    /\ UNCHANGED <<keys, wanted, disturbed>>

\* SAML_TOGGLE_FAILED: nothing is restored, also when the call was carried out.
DisableFails(m) ==
    /\ MintAt(m, "disable", "done")
    /\ FailsToIssue(SamlOff(m))
    /\ disturbed' = IF instance' = instance THEN disturbed
                     ELSE disturbed \cup {"unanswered"}
    /\ UNCHANGED <<keys, wanted>>

\* confirmSamlUpdate, after "disable" and after "restore".
UpdateSucceeded == instance.applying = NoUpdate /\ instance.succeeded

ConfirmsOff(m) ==
    /\ UpdateSucceeded
    /\ MintAt(m, "confirmOff", "create")
    /\ UNCHANGED <<instance, keys, wanted, disturbed>>

\* The key's name is known from here on, whether or not the call succeeds.
CreatesKey(m) ==
    /\ mint[m].at = "create"
    /\ \/ mint' = [mint EXCEPT ![m].at = "readKey", ![m].named = TRUE] /\ keys' = keys \cup {m}
       \/ /\ mint' = [mint EXCEPT ![m].at = "restore", ![m].named = TRUE]
          /\ keys' \in {keys, keys \cup {m}}
    /\ UNCHANGED <<instance, wanted, disturbed>>

ReadsKey(m) ==
    /\ mint[m].at = "readKey"
    /\ mint' = [mint EXCEPT ![m].at = "restore", ![m].minted = TRUE]
    /\ UNCHANGED <<instance, keys, wanted, disturbed>>

\* Mutant: what stops the minting stops the command.
LeavesSamlOff(m) ==
    /\ \E from \in {"confirmOff", "readKey"} : MintAt(m, from, "done")
    /\ UNCHANGED <<instance, keys, wanted, disturbed>>

\* The update failed or is not seen to end, or the key holds no dashboards credential.
MintingFails(m) ==
    /\ \E from \in {"confirmOff", "readKey"} : MintAt(m, from, "restore")
    /\ UNCHANGED <<instance, keys, wanted, disturbed>>

\* restoreCatchingError: what was read before, as a whole.
RestoresParams(m) ==
    /\ MintAt(m, "restore", "confirmOn")
    /\ Accepts(mint[m].read)
    /\ UNCHANGED <<keys, wanted, disturbed>>

RestoreFails(m) ==
    /\ mint' = [mint EXCEPT ![m].at = "cleanUp", ![m].critical = TRUE]
    /\ \/ mint[m].at = "restore" /\ FailsToIssue(mint[m].read)
       \/ mint[m].at = "confirmOn" /\ UNCHANGED instance
    /\ UNCHANGED <<keys, wanted, disturbed>>

ConfirmsOn(m) ==
    /\ UpdateSucceeded
    /\ MintAt(m, "confirmOn", "cleanUp")
    /\ UNCHANGED <<instance, keys, wanted, disturbed>>

(***************************************************************************)
(* cleanUpUnusableKey, only after the restore.  A minted key that is not   *)
(* returned because the restore failed stays, and only cf-otel says so     *)
(* (retainedKeyNote).                                                      *)
(***************************************************************************)
EndsMint(m, told) ==
    /\ mint[m].at = "cleanUp"
    /\ mint' = [mint EXCEPT ![m].at = "done", ![m].keyTold = told]
    /\ UNCHANGED <<instance, wanted, disturbed>>

Unusable(m) == mint[m].named /\ ~mint[m].minted

DeletesKey(m) == Unusable(m) /\ EndsMint(m, FALSE) /\ keys' = keys \ {m}
DeleteFails(m) == Unusable(m) /\ EndsMint(m, TRUE) /\ keys' \in {keys, keys \ {m}}
LeavesKey(m) ==
    /\ ~Unusable(m)
    /\ EndsMint(m, mint[m].minted /\ mint[m].critical /\ m \in Otel)
    /\ UNCHANGED keys

(***************************************************************************)
(* The instance, its administrator, and Ctrl-C, whose handler removes the  *)
(* temporary directories and lets the process die.                         *)
(***************************************************************************)
UpdateEnds ==
    /\ instance.applying # NoUpdate
    /\ \/ instance' = [params |-> instance.applying, applying |-> NoUpdate, succeeded |-> TRUE]
       \/ instance' = [instance EXCEPT !.applying = NoUpdate, !.succeeded = FALSE]
    /\ UNCHANGED <<mint, keys, wanted, disturbed>>

AdministratorEdits ==
    /\ instance.applying = NoUpdate /\ wanted.rest < MaxEdits
    /\ wanted' = [wanted EXCEPT !.rest = @ + 1]
    /\ instance' = [instance EXCEPT !.params.rest = wanted.rest + 1, !.succeeded = TRUE]
    /\ disturbed' = IF Underway = {} THEN disturbed ELSE disturbed \cup {"overlap"}
    /\ UNCHANGED <<mint, keys>>

MintIsKilled(m) ==
    /\ m \in Underway
    /\ mint' = [mint EXCEPT ![m].at = "killed"]
    /\ disturbed' = disturbed \cup {"killed"}
    /\ UNCHANGED <<instance, keys, wanted>>

SamlNext ==
    \/ \E m \in Mints :
         \/ ReadsParams(m) \/ DisablesSaml(m) \/ DisableFails(m) \/ ConfirmsOff(m)
         \/ CreatesKey(m) \/ ReadsKey(m) \/ MintingFails(m)
         \/ RestoresParams(m) \/ RestoreFails(m) \/ ConfirmsOn(m)
         \/ DeletesKey(m) \/ DeleteFails(m) \/ LeavesKey(m) \/ MintIsKilled(m)
    \/ UpdateEnds \/ AdministratorEdits

SamlSpec == SamlInit /\ [][SamlNext]_samlvars

----------------------------------------------------------------------------
\* The instance, the commands and the histories keep their types.
SamlTypeOK ==
    /\ instance \in [params : Params, applying : Params \cup {NoUpdate}, succeeded : BOOLEAN]
    /\ mint \in [Mints -> Mint]
    /\ keys \subseteq Mints /\ wanted \in Params
    /\ disturbed \subseteq {"overlap", "unanswered", "killed"}

\* When every mint is over, and none said that it could not restore the instance, its
\* parameters are those its administrator wants, whichever of the calls, confirmations and
\* key operations failed.  A key that is left is the credential that was returned, or the
\* error names it.  Exempt is what the code does not reckon with (a mint or an edit during
\* a mint, a disable that took effect although its call failed, Ctrl-C), and cf-metrics'
\* key of a mint whose restore failed, which it does not name.
MintsAreAccountedFor ==
    Underway = {} /\ disturbed = {} =>
        /\ instance.applying = NoUpdate /\ (\A m \in Mints : ~mint[m].critical) =>
             instance.params = wanted
        /\ \A m \in keys : \/ mint[m].keyTold
                           \/ mint[m].minted /\ (mint[m].critical => m \notin Otel)
=============================================================================
