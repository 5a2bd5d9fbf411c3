------------------------------ MODULE Executor ------------------------------
(***************************************************************************)
(* The WASM executor's plugin instance (src/host/executor.go, the first   *)
(* definition of Executor and PluginInstance in the file): LoadPlugin,    *)
(* Manifest, Schema and Check, composed with the host-function pipeline   *)
(* of HostDispatch, whose calls a guest makes while one of its exports    *)
(* runs.  The file holds a second revision of PluginInstance (callRaw,    *)
(* exports named manifest, schema and observe); the host is built from    *)
(* one of the two, and the same properties are checked of both.           *)
(*                                                                         *)
(* The guest is untrusted code outside src/, so it is an environment that *)
(* over-approximates any module: while an export runs it may write its    *)
(* memory and call host functions (one at a time; the call blocks it),    *)
(* and the export then traps, returns no results, or returns any packed   *)
(* (ptr, len).  Memory bytes are abstracted to who wrote them: "c" a byte *)
(* of the config the host wrote, "r" a byte of a value the guest encoded, *)
(* "z" anything else.  A region decodes into the host's struct when it is *)
(* made of guest-encoded bytes, or is exactly the config (a JSON object  *)
(* whose fields the struct ignores); anything else is a JSON error.       *)
(***************************************************************************)
EXTENDS HostDispatch

CONSTANTS
    MemSize,        \* bytes of the guest's linear memory
    ConfigLen,      \* len(configBytes) of the marshalled config
    ExportSets      \* the export sets an instantiated module may have

VARIABLES
    ex,         \* "new", "failed", "ready", or the guest export running
    op,         \* the PluginInstance method in progress, or "none"
    exports,    \* the instantiated module's exports
    mem,        \* the guest's linear memory: address -> "c", "r" or "z"
    ptr,        \* the pointer allocate returned for the config
    out,        \* the outcome of the last method: [op, kind]
    schema,     \* the schema the last successful Schema gave its caller
    build       \* the PluginInstance revision compiled in: "v1" or "v2"

exVars == <<ex, op, exports, mem, ptr, out, schema, build>>
sysVars == <<vars, exVars>>

Addr == 0..(MemSize - 1)
Running == {"_initialize", "_manifest", "_schema", "schema", "allocate", "_observe",
            "manifest", "observe"}
ZeroMem == [a \in Addr |-> "z"]

\* Memory().Read(ptr, len): fails when the region is not inside memory.
InBounds(p, l) == p + l <= MemSize
ReadRegion(p, l) == [i \in 1..l |-> mem[p + i - 1]]

\* json.Unmarshal of a region's bytes into the host's struct.
Decodes(b) == \/ b # <<>> /\ \A i \in DOMAIN b : b[i] = "r"
              \/ b = [i \in 1..ConfigLen |-> "c"]

\* Schema: schemaCopy := make([]byte, length); copy(schemaCopy, data).
SchemaCopy(p, l) == ReadRegion(p, l)

NoSchema == <<>>

\* Memory().Write(uint32(ptr), configBytes) succeeds.
ConfigWritten(p) == InBounds(p, ConfigLen)

End(kind) == /\ out' = [op |-> op, kind |-> kind]
             /\ ex' = "ready"
             /\ op' = "none"

ExInit ==
    /\ ex = "new" /\ op = "none" /\ exports = {} /\ mem = ZeroMem
    /\ ptr = 0
    /\ out = [op |-> "none", kind |-> "none"] /\ schema = NoSchema
    /\ build \in {"v1", "v2"}

-----------------------------------------------------------------------------
\* LoadPlugin: Instantiate fails, or the module is instantiated with fresh
\* memory and its _initialize, when exported, is called.
LoadPlugin ==
    /\ ex \in {"new", "failed"}
    /\ \/ /\ ex' = "failed"
          /\ out' = [op |-> "load", kind |-> "error"]
          /\ UNCHANGED <<op, exports, mem>>
       \/ \E es \in ExportSets :
            /\ exports' = es
            /\ mem' = ZeroMem
            /\ IF "_initialize" \in es
                 THEN ex' = "_initialize" /\ op' = "load" /\ out' = [op |-> "load", kind |-> "running"]
                 ELSE ex' = "ready" /\ op' = "none" /\ out' = [op |-> "load", kind |-> "ok"]
    /\ UNCHANGED <<vars, ptr, schema, build>>

\* Manifest: an error when _manifest is not exported, else call it.
Manifest ==
    /\ ex = "ready" /\ build = "v1"
    /\ IF "_manifest" \in exports
         THEN ex' = "_manifest" /\ op' = "manifest" /\ out' = [op |-> "manifest", kind |-> "running"]
         ELSE out' = [op |-> "manifest", kind |-> "error"] /\ UNCHANGED <<ex, op>>
    /\ UNCHANGED <<vars, exports, mem, ptr, schema, build>>

\* Schema: call _schema, or the older plugins' schema, or fail.
Schema ==
    /\ ex = "ready" /\ build = "v1"
    /\ CASE "_schema" \in exports -> ex' = "_schema" /\ op' = "schema" /\ out' = [op |-> "schema", kind |-> "running"]
         [] "schema" \in exports -> ex' = "schema" /\ op' = "schema" /\ out' = [op |-> "schema", kind |-> "running"]
         [] OTHER -> out' = [op |-> "schema", kind |-> "error"] /\ UNCHANGED <<ex, op>>
    /\ UNCHANGED <<vars, exports, mem, ptr, schema, build>>

\* Check: json.Marshal of the config (an error for a value JSON cannot
\* encode, such as a YAML .nan), then _observe and allocate must be
\* exported, and allocate is called with len(configBytes).
Check ==
    /\ ex = "ready" /\ build = "v1"
    /\ \E marshalled \in BOOLEAN :
        IF marshalled /\ {"_observe", "allocate"} \subseteq exports
          THEN ex' = "allocate" /\ op' = "check" /\ out' = [op |-> "check", kind |-> "running"]
          ELSE out' = [op |-> "check", kind |-> "error"] /\ UNCHANGED <<ex, op>>
    /\ UNCHANGED <<vars, exports, mem, ptr, schema, build>>

\* callRaw(name, input) of the second revision: name must be exported; a
\* non-empty input (a marshalled config is never empty) needs allocate,
\* which is called first; otherwise name is called at once.
CallRaw(name, m, hasInput) ==
    IF name \in exports /\ (hasInput => "allocate" \in exports)
      THEN /\ ex' = IF hasInput THEN "allocate" ELSE name
           /\ op' = m /\ out' = [op |-> m, kind |-> "running"]
      ELSE out' = [op |-> m, kind |-> "error"] /\ UNCHANGED <<ex, op>>

\* The second revision's Manifest, Schema and Check: callRaw of manifest
\* and schema with no input, and of observe with the marshalled config.
ManifestV2 ==
    /\ ex = "ready" /\ build = "v2"
    /\ CallRaw("manifest", "manifest", FALSE)
    /\ UNCHANGED <<vars, exports, mem, ptr, schema, build>>

SchemaV2 ==
    /\ ex = "ready" /\ build = "v2"
    /\ CallRaw("schema", "schema", FALSE)
    /\ UNCHANGED <<vars, exports, mem, ptr, schema, build>>

CheckV2 ==
    /\ ex = "ready" /\ build = "v2"
    /\ \E marshalled \in BOOLEAN :
        IF marshalled THEN CallRaw("observe", "check", TRUE)
        ELSE out' = [op |-> "check", kind |-> "error"] /\ UNCHANGED <<ex, op>>
    /\ UNCHANGED <<vars, exports, mem, ptr, schema, build>>

\* An export that returns no results: the first revision indexes ares[0]
\* of allocate unchecked and tests len(res) elsewhere; callRaw returns
\* res[0] of every call unchecked.  _initialize's results are ignored.
NoResultsPanics == ex = "allocate" \/ (build = "v2" /\ ex # "_initialize")

-----------------------------------------------------------------------------
\* The guest, between host calls, writes a value it encoded somewhere in
\* its memory (over the config too).
GuestWrite ==
    /\ ex \in Running /\ pc = "idle"
    /\ \E p \in Addr, l \in 1..MemSize :
        /\ InBounds(p, l)
        /\ mem' = [a \in Addr |-> IF a \in p..(p + l - 1) THEN "r" ELSE mem[a]]
    /\ UNCHANGED <<vars, ex, op, exports, ptr, out, schema, build>>

\* The guest calls a host function: one step of HostDispatch.
HostCall ==
    /\ ex \in Running
    /\ Next
    /\ UNCHANGED exVars

\* unmarshalPacked: a zero length leaves the zero value with no error;
\* otherwise the region is read and decoded.
UnmarshalPacked(p, l) ==
    IF l = 0 THEN "empty"
    ELSE IF InBounds(p, l) /\ Decodes(ReadRegion(p, l)) THEN "ok" ELSE "error"

\* The running export returns (the guest is between host calls): a
\* trap is an error; so are no results, unless they are indexed unchecked
\* (NoResultsPanics), which panics the host process: it starts over with
\* a new executor.  A packed result goes to the method.
Return ==
    /\ ex \in Running /\ pc = "idle"
    /\ \/ End("error") /\ UNCHANGED <<ptr, mem, schema>>
       \/ /\ NoResultsPanics
          /\ out' = [op |-> op, kind |-> "panic"]
          /\ ex' = "new"
          /\ op' = "none"
          /\ UNCHANGED <<ptr, mem, schema>>
       \/ /\ ~NoResultsPanics
          /\ End("error") /\ UNCHANGED <<ptr, mem, schema>>
       \/ \E p \in 0..MemSize, l \in 0..MemSize :
          CASE ex = "_initialize" ->
                 End("ok") /\ UNCHANGED <<ptr, mem, schema>>
            [] ex = "allocate" /\ ConfigWritten(p) ->
                 /\ mem' = [a \in Addr |-> IF a \in p..(p + ConfigLen - 1) THEN "c" ELSE mem[a]]
                 /\ ptr' = p
                 /\ ex' = IF build = "v1" THEN "_observe" ELSE "observe"
                 /\ UNCHANGED <<op, out, schema>>
            [] ex = "allocate" ->
                 End("error") /\ UNCHANGED <<ptr, mem, schema>>
            [] ex \in {"_schema", "schema"} /\ InBounds(p, l) ->
                 /\ End("ok")
                 /\ schema' = SchemaCopy(p, l)
                 /\ UNCHANGED <<ptr, mem>>
            [] ex \in {"_schema", "schema"} ->
                 End("error") /\ UNCHANGED <<ptr, mem, schema>>
            [] OTHER ->
                 End(UnmarshalPacked(p, l)) /\ UNCHANGED <<ptr, mem, schema>>
    /\ UNCHANGED <<vars, exports, build>>


SystemInit == Init /\ ExInit

SystemNext == LoadPlugin \/ Manifest \/ Schema \/ Check \/ ManifestV2 \/ SchemaV2 \/ CheckV2
              \/ GuestWrite \/ Return \/ HostCall

\* A host call, once made, runs to its end (HostDispatch's fairness); the
\* guest itself may run forever, so nothing is assumed of it.
SystemSpec == SystemInit /\ [][SystemNext]_sysVars /\ WF_sysVars(HostCall /\ Step)

-----------------------------------------------------------------------------
(* Properties *)

ExecutorTypeOK ==
    /\ ex \in {"new", "failed", "ready"} \cup Running
    /\ op \in {"none", "load", "manifest", "schema", "check"}
    /\ exports \in ExportSets \cup {{}}
    /\ mem \in [Addr -> {"c", "r", "z"}]
    /\ ptr \in 0..MemSize /\ build \in {"v1", "v2"}
    /\ out.kind \in {"none", "running", "ok", "empty", "error", "panic"}

================================================================================
