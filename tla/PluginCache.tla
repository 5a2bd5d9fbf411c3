----------------------------- MODULE PluginCache -----------------------------
(***************************************************************************)
(* PluginService.LoadPlugin (src/unnamed/part_019) over the resolver chain *)
(* Cached -> Registry (plugin/resolvers/cached_resolver.go,                *)
(* src/unnamed/part_017) and FSPluginRepository                            *)
(* (plugin/repository/fs_repository.go), run by concurrent loaders of one  *)
(* plugin reference.                                                       *)
(*                                                                         *)
(* The cache entry of the reference is three files: plugin.wasm,           *)
(* metadata.json and digest.txt. A wasm content is a model value of Blobs  *)
(* and its digest is the same value (content addressing), so "the wasm    *)
(* has digest d" is wasm = d. The registry tag of the reference may be     *)
(* re-pushed with other content.                                           *)
(*                                                                         *)
(* The loaders load the reference parsed from PluginName; its cache        *)
(* directory is EntryDir.  FSPluginRepository.Delete may be called with   *)
(* any reference of DeleteRefs and removes the directory pluginPath gives  *)
(* it, with everything inside.                                             *)
(***************************************************************************)
EXTENDS Naturals, PluginPath

CONSTANTS
    Procs,      \* concurrent LoadPlugin calls (one or several hosts)
    Blobs,      \* wasm contents, identified with their digests
    NoDigest,   \* the empty Digest of a spec without a locked digest
    Root,       \* the repository root, e.g. ~/.reglet/plugins
    PluginName, \* the loaders' PluginSpecDTO.Name
    DeleteRefs  \* references FSPluginRepository.Delete is called with

ASSUME NoDigest \notin Blobs

VARIABLES
    registry,   \* the content the registry serves for the reference's tag
    wasm,       \* plugin.wasm: "absent", "partial" (truncated) or a blob
    meta,       \* metadata.json: "absent", "partial" or "ok"
    digest,     \* digest.txt: "absent", "partial" (cut before the ':'), "torn"
                \* (cut inside the hex value) or a blob
    pc,         \* where each call is in LoadPlugin
    expected,   \* spec.ToDigest() of each call
    pulled,     \* artifact.Plugin's digest (= its wasm) after a registry pull
    found,      \* digest of the plugin the resolver chain returned
    loaded      \* content of the wasm at the path LoadPlugin returned

vars == <<registry, wasm, meta, digest, pc, expected, pulled, found, loaded>>

\* spec.ToPluginReference() of the loaders and the directory of its entry.
Ref == ParsePluginReference(PluginName)
EntryDir == PluginPath(Root, Ref).path
ASSUME ~Ref.err /\ ~PluginPath(Root, Ref).err
disk == <<wasm, meta, digest>>

PCs == {"idle", "cached", "pull", "create", "copy", "meta", "digest",
        "verify", "locate", "done", "failed", "crashed"}
None == "none"
FileStates == {"absent", "partial"}

TypeOK ==
    /\ registry \in Blobs
    /\ wasm \in FileStates \cup Blobs
    /\ meta \in FileStates \cup {"ok"}
    /\ digest \in FileStates \cup {"torn"} \cup Blobs
    /\ pc \in [Procs -> PCs]
    /\ expected \in [Procs -> Blobs \cup {NoDigest}]
    /\ pulled \in [Procs -> Blobs \cup {None}]
    /\ found \in [Procs -> Blobs \cup {None, "torn"}]
    /\ loaded \in [Procs -> FileStates \cup Blobs \cup {None}]

\* loadDigest's ParseDigest: SplitN on the first ':' must give two parts
\* and the algorithm must be sha256 or sha512; the value is not checked,
\* so a digest.txt torn inside its hex value parses, to a digest that is
\* no content's.
ParseDigest(d) == IF d \in Blobs \cup {"torn"} THEN d ELSE "error"

\* loadMetadata: os.Open fails on a missing metadata.json, the JSON decode
\* on a truncated one.
LoadMetadataOK(m) == m = "ok"

\* loadDigest: os.ReadFile fails on a missing digest.txt; its contents go
\* to ParseDigest.
LoadDigest(d) == IF d = "absent" THEN "error" ELSE ParseDigest(d)

\* Variant of FindOK that ignores a digest.txt that does not parse.
FindOKIgnoringDigest == wasm # "absent" /\ meta = "ok" /\ digest # "absent"

\* FSPluginRepository.Find: the wasm exists, metadata.json decodes and
\* digest.txt parses; the plugin carries the digest read from digest.txt.
FindOK == wasm # "absent" /\ LoadMetadataOK(meta) /\ LoadDigest(digest) # "error"

Init ==
    /\ registry \in Blobs
    /\ wasm = "absent" /\ meta = "absent" /\ digest = "absent"
    /\ pc = [p \in Procs |-> "idle"]
    /\ expected = [p \in Procs |-> NoDigest]
    /\ pulled = [p \in Procs |-> None]
    /\ found = [p \in Procs |-> None]
    /\ loaded = [p \in Procs |-> None]

Goto(p, l) == pc' = [pc EXCEPT ![p] = l]

\* BaseResolver.ResolveNext: the cached resolver's next is the registry
\* resolver.
NextResolver == "pull"

\* LoadPlugin's lockfile check: a non-empty expected digest must equal the
\* resolved plugin's digest (Plugin.VerifyIntegrity).
DigestRejected(exp, f) == exp # NoDigest /\ f # exp

-----------------------------------------------------------------------------
\* LoadPlugin: parse the reference and the locked digest.
LoadPlugin(p) ==
    /\ pc[p] = "idle"
    /\ \E d \in Blobs \cup {NoDigest} : expected' = [expected EXCEPT ![p] = d]
    /\ Goto(p, "cached")
    /\ UNCHANGED <<registry, disk, pulled, found, loaded>>

\* CachedPluginResolver.Resolve: a Find hit returns the cached plugin, any
\* Find error delegates to the registry resolver.
CachedResolve(p) ==
    /\ pc[p] = "cached"
    /\ IF FindOK
         THEN /\ found' = [found EXCEPT ![p] = LoadDigest(digest)]
              /\ Goto(p, "verify")
         ELSE /\ Goto(p, NextResolver)
              /\ UNCHANGED found
    /\ UNCHANGED <<registry, disk, expected, pulled, loaded>>

\* RegistryPluginResolver.Resolve: registry.Pull; the artifact's digest is
\* that of the wasm layer it fetched.
RegistryPull(p) ==
    /\ pc[p] = "pull"
    /\ \/ /\ pulled' = [pulled EXCEPT ![p] = registry]
          /\ Goto(p, "create")
       \/ /\ Goto(p, "failed")
          /\ UNCHANGED pulled
    /\ UNCHANGED <<registry, disk, expected, found, loaded>>

\* Store: MkdirAll and os.Create of plugin.wasm, which truncates it.
StoreCreate(p) ==
    /\ pc[p] = "create"
    /\ \/ /\ wasm' = "partial"
          /\ Goto(p, "copy")
       \/ /\ Goto(p, "failed")
          /\ UNCHANGED wasm
    /\ UNCHANGED <<registry, meta, digest, expected, pulled, found, loaded>>

\* Store: io.Copy of the artifact's wasm stream into the file.
StoreCopy(p) ==
    /\ pc[p] = "copy"
    /\ \/ /\ wasm' = pulled[p]
          /\ Goto(p, "meta")
       \/ /\ Goto(p, "failed")
          /\ UNCHANGED wasm
    /\ UNCHANGED <<registry, meta, digest, expected, pulled, found, loaded>>

\* Store: saveMetadata (os.Create then JSON encode).
StoreMeta(p) ==
    /\ pc[p] = "meta"
    /\ \/ /\ meta' = "ok"
          /\ Goto(p, "digest")
       \/ /\ meta' = "partial"
          /\ Goto(p, "failed")
    /\ UNCHANGED <<registry, wasm, digest, expected, pulled, found, loaded>>

\* Store: saveDigest (os.WriteFile); on success the registry resolver
\* returns artifact.Plugin.
StoreDigest(p) ==
    /\ pc[p] = "digest"
    /\ \/ /\ digest' = pulled[p]
          /\ found' = [found EXCEPT ![p] = pulled[p]]
          /\ Goto(p, "verify")
       \/ /\ digest' \in {"partial", "torn"}
          /\ Goto(p, "failed")
          /\ UNCHANGED found
    /\ UNCHANGED <<registry, wasm, meta, expected, pulled, loaded>>

\* LoadPlugin: VerifyDigest when a digest was locked.
Verify(p) ==
    /\ pc[p] = "verify"
    /\ IF DigestRejected(expected[p], found[p])
         THEN Goto(p, "failed")
         ELSE Goto(p, "locate")
    /\ UNCHANGED <<registry, disk, expected, pulled, found, loaded>>

\* LoadPlugin: repository.Find again, for the wasm path it returns.
Locate(p) ==
    /\ pc[p] = "locate"
    /\ IF FindOK
         THEN /\ Goto(p, "done")
              /\ loaded' = [loaded EXCEPT ![p] = wasm]
         ELSE /\ Goto(p, "failed")
              /\ UNCHANGED loaded
    /\ UNCHANGED <<registry, disk, expected, pulled, found>>

\* FSPluginRepository.Delete(r): pluginPath(r), then os.RemoveAll of it,
\* which removes the loaders' entry when it lies inside that directory.
Delete(r) ==
    LET pp == PluginPath(Root, r) IN
    /\ ~pp.err
    /\ IF Within(EntryDir, pp.path)
         THEN wasm' = "absent" /\ meta' = "absent" /\ digest' = "absent"
         ELSE UNCHANGED disk
    /\ UNCHANGED <<registry, pc, expected, pulled, found, loaded>>

\* PluginService.PublishPlugin: a push that succeeds puts new content under
\* the same tag; a failed push, and the signature (off by default), change
\* nothing the loaders see.
Republish ==
    /\ \E b \in Blobs \ {registry} : registry' = b
    /\ UNCHANGED <<disk, pc, expected, pulled, found, loaded>>

\* The host process dies in the middle of a Store.
Crash(p) ==
    /\ pc[p] \in {"create", "copy", "meta", "digest"}
    /\ Goto(p, "crashed")
    /\ UNCHANGED <<registry, disk, expected, pulled, found, loaded>>

\* A later call of LoadPlugin in the same or a new host process.
Restart(p) ==
    /\ pc[p] \in {"done", "failed", "crashed"}
    /\ Goto(p, "idle")
    /\ expected' = [expected EXCEPT ![p] = NoDigest]
    /\ pulled' = [pulled EXCEPT ![p] = None]
    /\ found' = [found EXCEPT ![p] = None]
    /\ loaded' = [loaded EXCEPT ![p] = None]
    /\ UNCHANGED <<registry, disk>>

Step(p) ==
    \/ CachedResolve(p) \/ RegistryPull(p) \/ StoreCreate(p) \/ StoreCopy(p)
    \/ StoreMeta(p) \/ StoreDigest(p) \/ Verify(p) \/ Locate(p)

Next ==
    \/ \E p \in Procs : LoadPlugin(p) \/ Step(p) \/ Crash(p) \/ Restart(p)
    \/ \E r \in DeleteRefs : Delete(r)
    \/ Republish

Spec == Init /\ [][Next]_vars

-----------------------------------------------------------------------------
(* Properties *)

\* The wasm at the path LoadPlugin returns has the locked digest (spec
\* 4.6: lockfile enforcement of integrity).
LoadedIsVerified ==
    \A p \in Procs :
        pc[p] = "done" /\ expected[p] # NoDigest => loaded[p] = expected[p]


================================================================================
