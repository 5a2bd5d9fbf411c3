------------------------------ MODULE Gatekeeper ------------------------------
(***************************************************************************)
(* Gatekeeper.GrantCapabilities (capability/gatekeeper/gatekeeper.go) run *)
(* by concurrent host processes against one grant store file               *)
(* (grantstore.FileStore, src/unnamed/part_001).                           *)
(*                                                                         *)
(* One GrantCapabilities call is split at the points where another process *)
(* can observe or change the store: the Load, each prompt to the user, and *)
(* the two halves of os.WriteFile (open with O_TRUNC, then write).         *)
(***************************************************************************)
EXTENDS GrantPolicy, Naturals, Sequences

CONSTANTS
    Procs,            \* host processes, each running GrantCapabilities
    Rules,            \* the capability rules that occur
    RequiredChoices,  \* required grant sets a call may be made with
    Levels            \* security levels a Gatekeeper may be built with

ASSUME RequiredChoices \subseteq SUBSET Rules
ASSUME Levels \subseteq {"strict", "standard", "permissive"}

VARIABLES
    store,        \* contents of grants.yaml: a set of rules
    pc,           \* where each process is in GrantCapabilities
    req,          \* the required argument of the current call
    trust,        \* its trustAll argument
    interactive,  \* prompter.IsInteractive() for this process
    level,        \* g.securityLevel
    loaded,       \* existingGrants, as returned by store.Load
    pending,      \* missing rules not yet prompted for
    newGrants,    \* existingGrants.Clone() plus the rules granted so far
    shouldSave,   \* some rule was answered "always"
    result,       \* the grant set the call returned
    once,         \* rules answered "grant for this session" (history)
    always,       \* rules answered "always grant" (history)
    savedAlways   \* rules answered "always" by calls whose save completed

vars == <<store, pc, req, trust, interactive, level, loaded, pending,
          newGrants, shouldSave, result, once, always, savedAlways>>
procVars == <<pc, req, trust, interactive, level, loaded, pending,
              newGrants, shouldSave, result, once, always>>

PCs == {"idle", "prompting", "saving", "writing", "done", "failed", "crashed"}
Finished == {"done", "failed", "crashed"}

\* The broad-request test of promptForNetwork/FS/Env/Exec.
IsBroad(r) ==
    \/ r.kind = "network" /\ r.pat = "*" /\ r.port = "*"
    \/ r.kind \in {"fs_read", "fs_write"} /\ r.pat \in {"/**", "**"}
    \/ r.kind = "env" /\ r.pat = "*"
    \/ r.kind = "exec" /\ r.pat \in {"**", "*"}

\* promptForCapabilities visits network, then fs, then env, then exec.
ClassRank == [network |-> 1, fs_read |-> 2, fs_write |-> 2, env |-> 3, exec |-> 4]

\* The rules of the first class, in that order, that still has a missing
\* rule; within a class the model takes them in any order.
NextToPrompt(missing) ==
    {r \in missing : \A s \in missing : ClassRank[r.kind] <= ClassRank[s.kind]}

\* Answers of TerminalPrompter.PromptForCapability: "Yes, grant for this
\* session", "Always grant", "No, deny", or an error from the form.
PrompterAnswers == {"once", "always", "deny", "error"}
Granting == {"auto", "once", "always"}

\* TerminalPrompter.IsInteractive: FALSE when os.Stdin.Stat fails, else
\* whether stdin is a character device.
IsInteractiveResults == BOOLEAN

\* Variant of EvaluateWithSecurityLevel without the strict-level case.
EvaluateWithoutStrict(lvl, r) ==
    IF lvl = "permissive" THEN {"auto"} ELSE PrompterAnswers

\* evaluateWithSecurityLevel: "refused" is the strict-policy error, "auto"
\* the permissive auto-grant (granted, not always).
EvaluateWithSecurityLevel(lvl, r) ==
    IF IsBroad(r) /\ lvl = "strict" THEN {"refused"}
    ELSE IF lvl = "permissive" THEN {"auto"}
    ELSE PrompterAnswers

\* Variant of NewGatekeeperLevel that leaves the level at its zero value.
NewGatekeeperLevelZero(opts) ==
    IF opts = <<>> THEN "" ELSE opts[Len(opts)]

\* NewGatekeeper: the level is SecurityStandard unless a WithSecurityLevel
\* option sets it; the last such option wins.
NewGatekeeperLevel(opts) ==
    IF opts = <<>> THEN "standard" ELSE opts[Len(opts)]

\* The option lists a host passes: none, or one WithSecurityLevel.
LevelOptions == {<<>>} \cup {<<l>> : l \in Levels}

\* FileStore.Load: a missing or empty file is the empty set; a read or parse
\* error makes GrantCapabilities fall back to the empty set as well.
LoadResults == {store, {}}

TypeOK ==
    /\ store \subseteq Rules
    /\ pc \in [Procs -> PCs]
    /\ req \in [Procs -> SUBSET Rules]
    /\ trust \in [Procs -> BOOLEAN]
    /\ interactive \in [Procs -> BOOLEAN]
    /\ level \in [Procs -> Levels]
    /\ \A v \in {loaded, pending, newGrants, result, once, always} :
          v \in [Procs -> SUBSET Rules]
    /\ shouldSave \in [Procs -> BOOLEAN]
    /\ savedAlways \subseteq Rules

Init ==
    /\ store = {}
    /\ pc = [p \in Procs |-> "idle"]
    /\ req = [p \in Procs |-> {}]
    /\ trust = [p \in Procs |-> FALSE]
    /\ interactive = [p \in Procs |-> FALSE]
    /\ level \in [Procs -> {NewGatekeeperLevel(o) : o \in LevelOptions}]
    /\ loaded = [p \in Procs |-> {}]
    /\ pending = [p \in Procs |-> {}]
    /\ newGrants = [p \in Procs |-> {}]
    /\ shouldSave = [p \in Procs |-> FALSE]
    /\ result = [p \in Procs |-> {}]
    /\ once = [p \in Procs |-> {}]
    /\ always = [p \in Procs |-> {}]
    /\ savedAlways = {}

-----------------------------------------------------------------------------
\* GrantCapabilities up to the prompt loop: the empty and trustAll early
\* returns, store.Load, the policy-aware difference, the "nothing missing"
\* return and the non-interactive error.
GrantCapabilities(p) ==
    /\ pc[p] = "idle"
    /\ \E R \in RequiredChoices, t \in BOOLEAN, i \in IsInteractiveResults :
        /\ req' = [req EXCEPT ![p] = R]
        /\ trust' = [trust EXCEPT ![p] = t]
        /\ interactive' = [interactive EXCEPT ![p] = i]
        /\ IF IsEmpty(R) \/ t
             THEN /\ pc' = [pc EXCEPT ![p] = "done"]
                  /\ result' = [result EXCEPT ![p] = IF IsEmpty(R) THEN {} ELSE R]
                  /\ UNCHANGED <<loaded, pending, newGrants>>
             ELSE \E existing \in LoadResults :
                  LET missing == Difference(R, existing) IN
                  /\ loaded' = [loaded EXCEPT ![p] = existing]
                  /\ CASE IsEmpty(missing) ->
                            /\ pc' = [pc EXCEPT ![p] = "done"]
                            /\ result' = [result EXCEPT ![p] = existing]
                            /\ UNCHANGED <<pending, newGrants>>
                       [] ~i ->
                            /\ pc' = [pc EXCEPT ![p] = "failed"]
                            /\ UNCHANGED <<result, pending, newGrants>>
                       [] OTHER ->
                            /\ pc' = [pc EXCEPT ![p] = "prompting"]
                            /\ pending' = [pending EXCEPT ![p] = missing]
                            /\ newGrants' = [newGrants EXCEPT ![p] = existing]
                            /\ UNCHANGED result
    /\ UNCHANGED <<store, level, shouldSave, once, always, savedAlways>>

\* One iteration of the promptForNetwork/FS/Env/Exec loops: the security
\* level decides, or the user is asked; a grant is merged into newGrants,
\* a refusal, denial or prompter error aborts the call.
PromptFor(p) ==
    /\ pc[p] = "prompting"
    /\ \E r \in NextToPrompt(pending[p]) :
       \E o \in EvaluateWithSecurityLevel(level[p], r) :
        /\ pending' = [pending EXCEPT ![p] = @ \ {r}]
        /\ IF o \in Granting
             THEN /\ newGrants' = [newGrants EXCEPT ![p] = Merge(@, {r})]
                  /\ shouldSave' = [shouldSave EXCEPT ![p] = @ \/ o = "always"]
                  /\ once' = IF o = "once" THEN [once EXCEPT ![p] = @ \cup {r}] ELSE once
                  /\ always' = IF o = "always" THEN [always EXCEPT ![p] = @ \cup {r}] ELSE always
                  /\ UNCHANGED pc
             ELSE /\ pc' = [pc EXCEPT ![p] = "failed"]
                  /\ UNCHANGED <<newGrants, shouldSave, once, always>>
    /\ UNCHANGED <<store, req, trust, interactive, level, loaded, result, savedAlways>>

\* After the loop: save if some answer was "always", else return newGrants.
EndPrompts(p) ==
    /\ pc[p] = "prompting"
    /\ pending[p] = {}
    /\ IF shouldSave[p]
         THEN /\ pc' = [pc EXCEPT ![p] = "saving"]
              /\ UNCHANGED result
         ELSE /\ pc' = [pc EXCEPT ![p] = "done"]
              /\ result' = [result EXCEPT ![p] = newGrants[p]]
    /\ UNCHANGED <<store, req, trust, interactive, level, loaded, pending,
                   newGrants, shouldSave, once, always, savedAlways>>

\* FileStore.Save, first half: MkdirAll and os.WriteFile's open with
\* O_TRUNC. If either fails, GrantCapabilities prints a warning and still
\* returns newGrants; otherwise the file is now empty.
SaveOpen(p) ==
    /\ pc[p] = "saving"
    /\ \/ /\ pc' = [pc EXCEPT ![p] = "writing"]
          /\ store' = {}
          /\ UNCHANGED result
       \/ /\ pc' = [pc EXCEPT ![p] = "done"]
          /\ result' = [result EXCEPT ![p] = newGrants[p]]
          /\ UNCHANGED store
    /\ UNCHANGED <<req, trust, interactive, level, loaded, pending, newGrants,
                   shouldSave, once, always, savedAlways>>

\* FileStore.Save, second half: the write of the marshalled, deduplicated
\* clone. A failed write leaves the truncated file and is only a warning.
SaveWrite(p) ==
    /\ pc[p] = "writing"
    /\ pc' = [pc EXCEPT ![p] = "done"]
    /\ result' = [result EXCEPT ![p] = newGrants[p]]
    /\ \/ /\ store' = newGrants[p]
          /\ savedAlways' = savedAlways \cup always[p]
       \/ UNCHANGED <<store, savedAlways>>
    /\ UNCHANGED <<req, trust, interactive, level, loaded, pending, newGrants,
                   shouldSave, once, always>>

\* The host process is killed in the middle of a call.
Crash(p) ==
    /\ pc[p] \in {"prompting", "saving", "writing"}
    /\ pc' = [pc EXCEPT ![p] = "crashed"]
    /\ UNCHANGED <<store, req, trust, interactive, level, loaded, pending,
                   newGrants, shouldSave, result, once, always, savedAlways>>

\* A new host run with a freshly built Gatekeeper of the same configuration.
Restart(p) ==
    /\ pc[p] \in Finished
    /\ pc' = [pc EXCEPT ![p] = "idle"]
    /\ req' = [req EXCEPT ![p] = {}]
    /\ trust' = [trust EXCEPT ![p] = FALSE]
    /\ interactive' = [interactive EXCEPT ![p] = FALSE]
    /\ loaded' = [loaded EXCEPT ![p] = {}]
    /\ pending' = [pending EXCEPT ![p] = {}]
    /\ newGrants' = [newGrants EXCEPT ![p] = {}]
    /\ result' = [result EXCEPT ![p] = {}]
    /\ shouldSave' = [shouldSave EXCEPT ![p] = FALSE]
    /\ once' = [once EXCEPT ![p] = {}]
    /\ always' = [always EXCEPT ![p] = {}]
    /\ UNCHANGED <<store, level, savedAlways>>

Step(p) ==
    \/ GrantCapabilities(p)
    \/ PromptFor(p)
    \/ EndPrompts(p)
    \/ SaveOpen(p)
    \/ SaveWrite(p)

Next == \E p \in Procs : Step(p) \/ Crash(p) \/ Restart(p)

Spec == Init /\ [][Next]_vars

-----------------------------------------------------------------------------
(* Properties *)

\* A call that returns grants returns grants that allow every required
\* rule: the stored set when nothing is missing, the required set under
\* trustAll, otherwise the loaded set merged with every rule granted in
\* the prompt loops.
GrantedCoversRequired ==
    \A p \in Procs : pc[p] = "done" => \A r \in req[p] : Covered(result[p], r)

\* Under the strict level a call never returns a broad rule it did not
\* already find in the store (unless trustAll was given): broad requests
\* are refused, not prompted for.
StrictNeverAddsBroad ==
    \A p \in Procs :
        (pc[p] = "done" /\ level[p] = "strict" /\ ~trust[p])
            => \A r \in result[p] \ loaded[p] : ~IsBroad(r)

\* A rule the user granted only "for this session" is not written to the
\* grant store by that call (the prompter's option text).
OnceNeverPersisted ==
    \A p \in Procs :
        pc[p] \in {"writing", "done"} /\ shouldSave[p]
            => \A r \in once[p] \ (always[p] \cup loaded[p]) :
                   pc[p] = "writing" \/ ~Covered(store, r)

\* A rule whose "always" answer was saved stays allowed by the grant store
\* whenever no save is half-way through (spec: saves are atomic, the store
\* is only changed by Gatekeeper under user consent).
AlwaysGrantsDurable ==
    (\A p \in Procs : pc[p] # "writing") =>
        \A r \in savedAlways : Covered(store, r)

================================================================================
