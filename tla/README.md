# TLA+ models of reglet-hostlib

reglet-hostlib is the host side of the reglet WebAssembly plugin system. It
covers two lifecycles:

- **capability consent**: a plugin declares what it needs, the host extracts
  the grants it requires, the Gatekeeper asks the user, and the decisions are
  persisted in a grant store. At runtime, every privileged host call passes a
  capability middleware before it runs.
- **plugin acquisition**: a plugin reference is resolved through a chain
  (cache, then registry), stored content-addressed on disk, verified by
  digest, and pinned in a lockfile.

This directory holds TLA+ models of those components, written from the Go
source under `src/`, with the TLC configurations that check them.
`PROJECT.json` maps every definition to the lines it models, and lists the
runs, the mutants that show each property can fail, the findings and the
hazards.

## Inventory

| Component | Source | State | Operations | Hard behaviour |
|---|---|---|---|---|
| Grant model / policy matcher | outside `src/` (spec.md §3, §4.1–4.2) | none (pure) | Difference, Merge, IsEmpty, match | Difference is by policy match, not string equality |
| Gatekeeper | `capability/gatekeeper/gatekeeper.go` | security level | GrantCapabilities, prompt loops, evaluateWithSecurityLevel | early returns, class order, strict/permissive rules, the "always" save |
| Terminal prompter | `unnamed/part_001` 1–244 | none | PromptForCapability, IsInteractive | three answers and a form error |
| Grant store | `unnamed/part_001` 245–358 | `grants.yaml` | Load, Save | non-atomic `os.WriteFile`, no lock, shared by host processes |
| Capability extractors | `unnamed/part_001` 659–859, `capability/extractor.go` | registry map | Register, Get, Extract (file, command, network) | URL port ignored, userinfo host, nameserver instead of hostname, hosts × ports |
| Risk analyzer | `capability/risk.go` | none | AnalyzeRisk | level classification of what the middleware then allows |
| Capability checker and middleware | `unnamed/part_002` | none per call | Check*, CapabilityMiddleware | fails open without a plugin name or on an unparsable payload |
| Host middleware | `middleware.go` | none | User-Agent, panic recovery, logging | re-marshalled payload |
| Secure dialer | `netutil/secure_dialer.go` | DNS pin cache with TTL | DialContext, getCached, cacheIP | concurrent cache miss under DNS rebinding |
| Retry transport | `netutil/retry.go` | per request | RoundTrip, calculateBackoff | bounds, body closing, overflow |
| Limited reader | `netutil/limitreader.go` | remaining N | Read | the exact-limit case |
| HTTP host function | `http.go` | per request | PerformHTTPRequest | a new dialer per request |
| Plugin repository | `plugin/repository/fs_repository.go` | cache directory | Find, Store, List, Delete | non-atomic Store, digest read from digest.txt |
| Resolver chain | `plugin/resolvers/*`, `plugin/services/plugin_resolution.go`, `unnamed/part_017` | none | Resolve, ResolveNext | cache miss falls through to the registry |
| Plugin service | `unnamed/part_019`, `plugin/services/integrity_service.go` | none | LoadPlugin, VerifyDigest | verify, then find the wasm again (TOCTOU) |
| Lockfile | `plugin/entities/lockfile.go`, `plugin/filesystem/lockfile.go`, `unnamed/part_011`, `unnamed/part_018` | `reglet.lock` | ResolvePlugins, LockProfile, Load, Save | O_TRUNC save, profiles not serialised |
| References, digests | `plugin/values/*`, `unnamed/part_009` | none | ParsePluginReference, String, pluginPath | dropped reference parts, `.` and `..` in cache paths |
| WASM executor | `host/executor.go` | a plugin instance and its guest memory | LoadPlugin, Manifest, Schema, Check, unmarshalPacked | an untrusted guest's allocate and packed results |
| OCI client, log, templates | `unnamed/part_020`, `wazero/log.go` | I/O | | out of TLC's reach |

## Modules

### GrantPolicy (spec-modelled)

The grant-set algebra and the match semantics. The implementations are not
part of `src/`, so these operators are written from spec.md. A rule is a
record `[kind, pat, port]`. A GrantSet is a set of rules: `Clone` is a value
copy and `Deduplicate` is the identity.

### Gatekeeper, MCGatekeeper

This module models `Gatekeeper.GrantCapabilities` run by several host
processes `Procs` against one `grants.yaml` (`store`). Each process has a
`pc`, and a call is split at the points where other processes can see or
change the store:

| Action | Code |
|---|---|
| `GrantCapabilities(p)` | lines 68–108: the empty and trust-all returns, `store.Load` (a read or parse error gives `{}`), the policy-aware Difference, the "nothing missing" return, the non-interactive error |
| `PromptFor(p)` | one iteration of promptForNetwork/FS/Env/Exec, with evaluateWithSecurityLevel and the prompter's answer |
| `EndPrompts(p)` | lines 109–122: save when some answer was "always" |
| `SaveOpen(p)` | `FileStore.Save` up to `os.WriteFile`'s truncating open (MkdirAll or open may fail: a warning only) |
| `SaveWrite(p)` | the write itself, which may fail and leave the truncated file |
| `Crash(p)`, `Restart(p)` | the host process is killed; a new run builds a new Gatekeeper |

Rules of one class are prompted in any order. The code takes them in list
order, and FS reads and writes interleave per rule. The classes are taken in
the code's order. The ghost variables `once`, `always` and
`savedAlways` record the history that the properties talk about.

Bounds: `MCGatekeeper` uses four rules, one specific and one broad
(`*`/`**`) of each of two classes (network, exec). The required sets are
chosen so that a stored broad rule covers a later specific request, and
every level, trust-all, interactive and non-interactive call is taken.
These cover every branch of GrantCapabilities and evaluateWithSecurityLevel.
A third class would only repeat the loop.

No fairness is assumed, and no liveness property is checked. The prompt
loop is a bounded walk over the required rules, so its termination follows
from the structure of the code and the model. A property about it would
show nothing about the code.

### PluginCache, MCPluginCache

`PluginService.LoadPlugin` (`unnamed/part_019`) run by loaders `Procs` of one
plugin reference, over the resolver chain (cached resolver, then registry
resolver) and `FSPluginRepository`. The cache entry is three files
(`wasm`, `meta`, `digest`), each `"absent"`, `"partial"` (truncated) or
complete. `digest.txt` may also be `"torn"`: cut inside its hex value after
the `sha256:` prefix. `ParseDigest` (`values.ParseDigest`, `NewDigest`)
checks only the algorithm, so a torn file parses, to a digest that matches
no content. `Find` then hits, and every later locked load fails
`VerifyDigest` without re-pulling. A file cut before the `:` does not
parse, and `Find` falls through to the registry. Wasm content is a model value of `Blobs` and is its own digest,
so "the wasm has digest d" is `wasm = d`. The registry tag may be re-pushed
(`Republish`, a successful `PluginService.PublishPlugin`), the directory removed (`Delete`), and a host killed in the
middle of a Store (`Crash`).

| Action | Code |
|---|---|
| `LoadPlugin(p)` | parse the reference and the locked digest (or none) |
| `CachedResolve(p)` | `CachedPluginResolver.Resolve`: a `Find` hit returns the digest read from `digest.txt`; any error falls through |
| `RegistryPull(p)` | `RegistryPluginResolver.Resolve`: pull, or fail |
| `StoreCreate/Copy/Meta/Digest(p)` | `Store`'s `os.Create`, `io.Copy`, `saveMetadata`, `saveDigest`, each of which may fail |
| `Verify(p)` | `VerifyDigest` against the locked digest |
| `Locate(p)` | the second `Find`, for the path that is returned |

No fairness is assumed, and no liveness property is checked. A load is a
fixed sequence of at most two resolvers and one verification, so its
termination holds by the shape of the code.

`Delete(r)` is `FSPluginRepository.Delete` for any reference of `DeleteRefs`.
It calls `pluginPath` (module `PluginPath`) and removes the cache entry only
when the resulting directory contains the entry. The loaders' entry directory
`EntryDir` is the `pluginPath` of `ParsePluginReference(PluginName)`.

### PluginPath

Strings are sequences of one-character strings (`"/c"` is `<<"/", "c">>`).
`SplitOn` and `JoinWith` are `strings.Split` and `strings.Join`. `Clean` is
`filepath.Clean` of a rooted path: empty and `.` elements are dropped, and
`..` removes the previous element or stays at the root. `FilepathJoin` joins
and then cleans. `ParsePluginReference`, `NewPluginReference`, `IsEmbedded`
and `RefString` (`PluginReference.String`) follow `plugin_reference.go`, and
`PluginPath` follows `pluginPath` in `fs_repository.go`: an absolute
reference string is refused, and the cleaned path must equal the cleaned
root or start with the root followed by `/`.

MCPluginCache uses root `/c` and loader reference `r/o/p/n:1`. `Delete` is
called with six references:

- `r/o/p/n:1`, the entry itself;
- `r/o/p/q/n:1`, whose `q` is dropped by the parser, so it is the same entry;
- `../cx/o/n:1`, which cleans to `/cx/o/n:1`, a sibling that shares the
  root's prefix;
- `.`, which is the root;
- `x`, an embedded name;
- a reference whose name is `/e`, which is absolute and refused.

### Lockfile, MCLockfile

`LockfileService` (`unnamed/part_018`) over `FileLockfileRepository`
(`unnamed/part_011`), the YAML form (`plugin/filesystem/lockfile.go`) and the
entity (`plugin/entities/lockfile.go`), run by one or two processes `Procs`
sharing one `reglet.lock`. The file is `"absent"`, `"torn"` (an `O_TRUNC`
open not yet written) or `"ok"` with a `content` record.

Declarations are strings written as sequences of tokens (words, `/`, `:`,
`@`), and `ParsePluginDeclaration` (`plugin_spec.go`) is translated as it is:
the `@sha256:` digest pin found with `strings.Index`, the `@version` suffix
found with `strings.LastIndex`, and an OCI path's last segment with its
`:tag`. A bare `file:1.0` keeps the whole string as its name, as the code
does. `ResolvePlugins` runs the declaration loop (`ResolveDecls`, RECURSIVE).
An empty declaration is a parse error. A lock whose requested constraint
equals the new one is kept. Anything else is relocked with the declaration's
source. The service saves only when something changed. `LockProfile` adds a
profile, sets version 2 and saves. `GetLockedProfile` loads the file and
looks the profile up. `FromEntity` and `ToEntity` translate the YAML struct,
which has no profiles field.

A save is two steps, the truncating open and the encode. A crash or a failed
encode therefore leaves a torn file. `saved` is a ghost record of the plugin
names and profile URLs that completed saves wrote. No fairness is assumed:
the properties are safety properties.

### RetryTransport, RetryPolicy, MCRetryTransport

`netutil.RetryTransport.RoundTrip` (`netutil/retry.go`). One RoundTrip call
of a shared transport runs at a time. After it returns, the next call may
start. `Attempt*` is one whole iteration of the loop:

- the request clone and `GetBody`;
- `base.RoundTrip`, whose outcome is chosen from a network error, an SSRF
  block, or a status with a `Retry-After` header;
- the classification of that outcome;
- `OnRetry`, the body close and the `Sleep`.

The sleep's duration is kept in the ghost log `waits`, with the OnRetry
arguments. `calculateBackoff` is an operator. Retry-After is seconds (Atoi),
a date relative to now (ParseTime), or junk. Durations are in milliseconds.

`Cancel` is the caller cancelling the request context. Every later base
call fails with the context error, and the loop retries it like a network
error.

`RetryPolicy` is the abstract contract of spec §4.11 and has no backoff or
bodies:

- attempts happen one after another;
- a further attempt follows only a transient outcome;
- there are at most `MaxRetries + 1` attempts;
- the call returns its last outcome.

`RetryTransport` instantiates it with `limit <- MaxRetries + 1` and
`calls <- trace`, and the run checks `RefinesRetryPolicy`.

Bounds:

- the zero transport, meaning 3 retries, 1 s initial backoff and 30 s cap;
- one transport with 1 retry, 0.5 s initial backoff and 1.5 s cap;
- statuses 200, 404, 429 and 503;
- seven Retry-After forms: none, 45 s, -1 s, a date in the past, a date 1 s
  ahead, a date 60 s ahead, and junk.

These bounds reach every cap, every fallback and every return path. A run
takes about 440,000 states. No fairness is needed: the properties are
safety properties, and a finished call is followed by a new one.

### SecureDialer, MCSecureDialer

`netutil.SecureDialer.DialContext` run by concurrent calls `Procs` on one
dialer while the DNS answer of a name changes (`Rebind`) and the clock moves
(`Tick`, bounded by `MaxTime`). The steps are split where the code takes or
releases the cache lock or calls the resolver: `GetCached` (read lock, TTL
check), `Literal` (IP literal: validate, cache, dial), `Resolve`
(`LookupIPAddr` and the IPv4-first `SelectIP`), `Validate`
(`validateResolvedIP`, then `cacheIP` under the write lock) and `Dial`
(`dialIP` to the chosen IP). `dials` is a ghost record of every connection.
`ValidateAddress` comes from the netfilter package outside `src/`, so
`Allowed` is written from the spec: a private address is blocked unless
`AllowPrivateNetwork` is set. Bounds: two dialers, one name, answers that
are public, private and IPv6-first with a private IPv4 address, a TTL of 2
ticks and a horizon of 3 ticks. This makes cache hits, expiry and a rebind
inside the TTL all reachable.

### CapabilityExtractor

This module has no state. Its operators are the built-in extractors, the
extractor `Registry` and `AnalyzeRisk`. A plugin configuration is the
`map[string]interface{}` that the extractors read. It is modelled as a
function from key to `[t |-> Go type, v |-> value]`, so a type assertion
is a test on `t`. A float64 port is given in halves, so `FormatFloat`
reproduces `%.0f` (round half to even, and `-0`).

| Operator | Code |
|---|---|
| `FileExtract`, `CommandExtract`, `NetworkExtract` | the three `Extract` methods |
| `ExtractFromURL`, `ExtractHostFromURL`, `ExtractFromHostTarget`, `ExtractFromNameserver`, `ExtractPort` | the network extractor's helpers |
| `Register`, `DefaultRegistry`, `ExtractFor` | `Registry.Register`, `RegisterDefaultExtractors`, `Get` followed by `Extract` |
| `NetworkFactors` … `AnalyzeRisk` | `AnalyzeRisk`, one operator per capability class |

`ExtractHostFromURL` does the code's three cuts (at `://`, then `/`, then
`:`) in one step, which is equivalent because every `://` starts with `:`.
`Rules` (spec-modelled) flattens a GrantSet into `GrantPolicy` rules. A
network rule grants every host on every port.

### HostDispatch, MCHostDispatch

One privileged host call at a time passes through the host middleware
(`UserAgentMiddleware`), `CapabilityMiddleware` with the `CapabilityChecker`,
and for `http_request` the HTTP host function (`http.go`) with the
`LimitedReader`. A call is a record: plugin name (or none), whether a
HostContext is present, the function, how the payload decodes (`typed`,
`map`, `bad`), the URL or request, whether redirects are followed, and
`MaxRedirects`. `Grants` maps a plugin to its GrantSet, in the code's
shape, and `GrantedRules` gives the rules the policy engine matches.
`MCHostDispatch` has three hand-written plugins. It also has four plugins
(`http`, `dns`, `command`, `tcp`) whose grants are exactly what
`ExtractFor(DefaultRegistry, ...)` extracts from a configuration.

| Action | Code |
|---|---|
| `Receive` | `UserAgentMiddleware`: sets the User-Agent of an `http_request` payload |
| `Capability` | `CapabilityMiddleware`: the fail-open paths (no plugin, no HostContext, a payload that does not decode), the SSRF context value, and the per-function check (`Decide`) |
| `Handler` | `PerformHTTPRequest`/`executeHTTPRequest`: decoding, URL validation, the non-HTTP handlers |
| `Dial` | `createHTTPClient`'s dialer: the `SecureDialer` blocks a private address when SSRF protection is on |
| `Response` | a body, or a redirect that `CheckRedirect` refuses or follows |
| `Read` | `io.ReadAll` over `LimitedReader.Read`: the clip, a short read, EOF with or after the last bytes, and the one-byte probe at the limit |

`io` is the ghost record of every connection of the current call, with its
hop number and whether the middleware checked it. Bounds: three plugins
(one granted one host and one command, one granted `network * *`, one with
no grants) and the four extracted ones, twenty-one calls that reach every branch, body lengths 0, 2 and 3
against a limit of 2 (below, at, above), and a buffer of 2. Fairness: weak
fairness on the steps of a call, which is straight-line code once received.

`MCHostDispatch` asserts (`ASSUME`) that the literal GrantSets it gives the
four extracted plugins equal `ExtractFor`'s results. TLC checks this once.
Because the GrantSets are written out, TLC does not extract them again in
every `ENABLED` evaluation of the fairness condition.

### Executor, MCExecutor

This models a plugin instance of the executor (`host/executor.go`),
composed with HostDispatch. The file holds two revisions of
`PluginInstance`, and the variable `build`, chosen in the initial state,
says which one the host was compiled from. The first calls `_manifest`,
`_schema` (or `schema`) and `_observe`, and tests `len(res)`. The second
calls `manifest`, `schema` and `observe` through `callRaw` (`CallRaw`),
which indexes `res[0]` unchecked. So under the second revision, any
export that returns no results panics the host (`NoResultsPanics`). The
same properties are checked of both. The guest is
untrusted plugin code, so it is an environment that over-approximates any
module. While one of its exports runs, it may write its memory or call a
host function. A host call is one HostDispatch call run to its end, and
the guest is blocked during it. The export then traps, returns no
results, or returns any packed `(ptr, len)`. A memory byte is abstracted
to who wrote it: the host's config (`c`), a value the guest encoded
(`r`), or anything else (`z`).

| Action | Code |
|---|---|
| `LoadPlugin` | `Executor.LoadPlugin`: instantiate with fresh memory, then call `_initialize` when exported |
| `Manifest`, `Schema`, `Check` | the first revision's methods up to the export call: missing exports, the `schema` fallback, the marshal error, `allocate` |
| `ManifestV2`, `SchemaV2`, `CheckV2` | the second revision's methods: `callRaw` with no input, or with the marshalled config after `allocate` |
| `Return` | everything after an export returns, in either revision: trap, no results (an unchecked `res[0]` panics the host), the config write and the `_observe` call, `unmarshalPacked`, and the schema read and copy |
| `GuestWrite`, `HostCall` | the guest (outside `src/`) and the host functions that `registerHostFunctions` registers |

Bounds: a memory of 2 bytes and a config of 1 byte. These make a pointer
that fits, one where the write fails, and regions inside and past the end
all reachable. There are three export sets: a current plugin, an older one
(`schema`, `_observe`, no `allocate`), and one built for the second
revision's names. Each revision meets a module built for the other.
No fairness is assumed of the guest, which may run forever. The guest
returns and writes only between host calls. The composed run has 617,600
states and takes under two minutes.

## Runs

| Run | Expect | What it shows |
|---|---|---|
| `gatekeeper` | pass | 1 process, all levels. `GrantedCoversRequired`: a successful call returns grants that allow every required rule. `StrictNeverAddsBroad`: strict never returns a broad rule it did not load. |
| `gatekeeper_once` | violation | `OnceNeverPersisted`: a "grant for this session" answer is saved when another rule of the same call was answered "always". |
| `gatekeeper_race` | violation | `AlwaysGrantsDurable`: a saved "always" grant disappears from the store. Ways this happens: a failed write after the truncating open, a crash between open and write, a load error followed by a save, or two processes' load-modify-save calls interleaving. The last one was confirmed separately with every fault disabled. |
| `plugin_cache` | pass | 1 loader, with failing and torn stores, crashes, deletes and re-pushed tags. Only `TypeOK` is checked. This run reaches every action that the `plugin_cache_verify` violation run relies on. |
| `plugin_cache_verify` | violation | `LoadedIsVerified`: the wasm at the returned path need not have the locked digest. Verification reads `digest.txt`, and the wasm can be truncated or replaced by a concurrent Store between the check and the final `Find`. Store never detects divergence (spec §4.4 requires a loud failure). With failures and crashes removed, a second loader that pulls a re-pushed tag still overwrites the complete entry and produces this violation. |
| `lockfile` | pass | `ReturnedLockHonorsDeclarations`: ResolvePlugins returns every declared plugin at its current constraint (the last declaration wins). `PluginLocksNeverDropped`: no save drops a plugin lock an earlier save wrote. |
| `lockfile_durable` | violation | Two processes. `LocksPersisted`: a plugin or profile lock that a completed save wrote is missing from the file later. Profiles are never serialised. Two interleaved load-modify-save calls drop each other's plugin locks; this was confirmed separately with profiles and faults removed. A failed or interrupted save leaves a torn file. |
| `secure_dialer` | pass | `NoSSRF`: with two concurrent dials, rebinding and expiry, no connection goes to a blocked address (about 500,000 states). |
| `secure_dialer_pin` | violation | `PinnedWithinTTL`: two concurrent cache misses each resolve, overwrite the pin and dial their own IP, so one host is dialled at two IPs within the TTL. |
| `host_dispatch` | pass | `FirstHopGranted`: the first connection of every checked call is allowed by the plugin's grants. `PrivateOnlyIfAllowed`: a private address is reached, over any hop, only by a plugin whose grants allow private networks (or with no plugin name, the fail-open path). `BodyWithinLimit`: a body never exceeds the limit, and a cut one is reported as truncated. `RiskReflectsIO`: the risk report for a plugin's grants accounts for every I/O that the middleware lets a checked call do. A command run needs a Critical report, and a connection or DNS lookup needs a network factor. `CallCompletes`: every call ends. The run's module is `MCExecutor`, so every host call is made by a guest while one of its exports runs. Both revisions of `PluginInstance` in `executor.go` are checked. |
| `retry` | pass | `RetriesOnlyTransient`: at most MaxRetries+1 attempts, and a further one only after a transport error that is not an SSRF block, or after a 429, 502, 503 or 504. `ResultIsLastOutcome`: the call returns its last outcome, never an earlier response and never nil with nil. `DiscardedBodiesClosed`: every body is closed except the returned one. `RetriesReportedAndCapped`: OnRetry is numbered 1, 2, ... with the causing status, and no wait exceeds MaxBackoff. `RefinesRetryPolicy`: the transport implements the abstract spec §4.11 contract. |
| `host_dispatch_redirect` | violation | `HTTPTargetsGranted`: a plugin granted `api.example.com:443` is redirected to a host it was never granted. The middleware checks the first URL only. |

Each property of a passing run has a mutant in `PROJECT.json`. The mutant
replaces one definition with a plausible bug (a dropped strict case, a
string-equality Difference, a Merge that drops new classes, an off-by-one
class ordering, an uninitialised level), and TLC finds the property
violated.

## Plan

Done:

- Gatekeeper, PluginCache, SecureDialer and HostDispatch, with the
  LimitedReader.
- Lockfile, with its declaration parser and two processes.
- RetryTransport and its refinement of RetryPolicy.
- Plugin references and cache paths (PluginPath), used by the PluginCache's
  Delete.
- Extractors, the extractor registry and risk analysis (CapabilityExtractor),
  composed into HostDispatch as the source of the grants.
- The executor's plugin instance (Executor), both revisions in the file,
  with an arbitrary guest whose host calls go through HostDispatch.
- `ParseDigest`, over whole, cut and torn `digest.txt` files.

Next:

1. **An abstract GrantStore** specification, with the FileStore refining it
   under a single writer (INSTANCE ... WITH).
2. **Gatekeeper fed by extraction**: the required GrantSet of a call
   computed by `ExtractFor` rather than enumerated.

## Not modelled

- The OCI registry client, the guest log bridge, templates, the JSON
  parser and validation: I/O and formatting, out of TLC's reach.
- The test doubles (`plugin/mocks.go`), the error types and the stub
  `CosignVerifier` (`plugin/entities/errors.go`). Signature checks are
  off, because `NewIntegrityService(false)`.
- The executor's `Close`, its options and the `log_message` handlers (which
  only print). The
  `uint32` truncation of a pointer at or above 2^32 is beyond TLC's
  integers.
- Digest hashing (`Verify`, `ComputeDigestSHA256`): content equality in the
  model.
- `SemverResolver`: it has no caller in `src/` (`ResolvePlugins` locks the
  constraint as given), and its behaviour is the semver library's
  constraint matching and ordering.
- `PluginRegistry`, `PluginName`, `IsBuiltIn` and
  `ParsePluginDeclarationWithAlias` (`plugin_spec.go`), the schema
  `Registry` (`registry/registry.go`), and the mocks: no code in `src/`
  outside tests calls them. The lockfile model uses
  `ParsePluginDeclaration`, the one parser that is called.
- The checks accept two kinds of reference that a reader may not expect.
  `r/o/p/q/n:1` shares the cache entry of `r/o/p/n:1`, and an embedded
  reference `.` names the whole cache root. Both directories still lie
  within the root. `Delete` reaches these references, but no property
  checks them, because a confinement invariant would restate
  `pluginPath`'s own containment test.
- A guest whose `_observe` returns length 0 gets a successful Check with
  the zero Result. The model reaches this case, but no property forbids it,
  because nothing in the code or the spec says what a zero length means.
- The extractors' results are not checked against the plugin's own calls.
  An explicit URL port is ignored (443 or 80 is granted instead). A URL
  with userinfo yields the user name as host. A `dns` configuration grants
  `nameserver:53`, but the middleware checks `hostname:53`. These cases are
  recorded as a hazard. No run checks them, because the grants are what the
  user consents to, and refusing a call is safe.
- The schema registry: a locked map whose values are generated JSON schemas.
- `CheckFileSystem`, `CheckEnvironment` and `ToCapabilityGetter`: no caller
  in the dispatch path.
- The policy matcher's path cleaning and symlink mode: string processing.
- Panic recovery and logging middleware: no state.
