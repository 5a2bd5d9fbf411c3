----------------------------- MODULE MCLockfile -----------------------------
(* Model of Lockfile for TLC: declaration lists that add a plugin, pin    *)
(* it, move it to a registry path with the same version, pin a digest,   *)
(* repeat a name, and contain an empty declaration; one profile URL.      *)
EXTENDS Lockfile

CONSTANTS c1, c2

File    == <<"file">>
FileAt1 == <<"file", "@", "1.0">>
OCIFile == <<"ghcr.io", "/", "org", "/", "plugins", "/", "file", ":", "1.0">>
Pinned  == <<"file", "@", "sha256", ":", "abc">>
Http    == <<"http">>

MCDeclLists == {
    <<File>>,
    <<FileAt1, Http>>,
    <<OCIFile>>,
    <<FileAt1, Pinned>>,
    <<Http, <<>>>>
}
MCProcs1 == {c1}
MCProcs2 == {c1, c2}
MCURLs == {"https://profiles.example/base"}
MCVersions == {"v1", "v2"}
MCDigests == {"", "sha256:abc"}
================================================================================
