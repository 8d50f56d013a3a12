----------------------------- MODULE XdsCommon -----------------------------
(***************************************************************************)
(* Helpers shared by the conversions of src/types/agent_xds.rs: proto3     *)
(* defaults, the u32-to-u16 cast, the "namespace/hostname" service key     *)
(* split, and how a pushed entity is stored.                               *)
(***************************************************************************)
EXTENDS Naturals, Sequences, SequencesExt

CONSTANTS
    WirePorts,     \* u32 port values the control plane pushes
    EmptyStr,      \* the empty string "" (proto3 default)
    SvcKeys,       \* Service keys: sequences over {"a", "/"}
    Absent         \* model value: no value / no entity stored

ASSUME WirePorts \subseteq Nat /\ SvcKeys \subseteq Seq({"a", "/"})

U16(x) == x % 65536   \* Rust `x as u16` on a u32

\* default_as_none: the type's default value means "not set".
default_as_none(v, dflt) == IF v = dflt THEN Absent ELSE v

IsSlash(ch) == ch = "/"

\* Mutant of split_once('/'): the key split at its last '/'.
SplitLast(key) ==
    LET i == SelectLastInSeq(key, IsSlash) IN
    [ok |-> i # 0, namespace |-> SubSeq(key, 1, i - 1),
     hostname |-> SubSeq(key, i + 1, Len(key))]

\* svc_key.split_once('/') into a NamespacedHostname; not ok (the
\* NamespacedHostnameParse error) when the key has no '/'.
SplitServiceKey(key) ==
    LET i == SelectInSeq(key, IsSlash) IN
    [ok |-> i # 0, namespace |-> SubSeq(key, 1, i - 1),
     hostname |-> SubSeq(key, i + 1, Len(key))]

\* The backend of a RouteBackend (RouteBackendReference::try_from) or of an
\* McpTarget (McpTarget::try_from), converted alike: no kind is Invalid, a
\* backend name a Backend reference, a service key is split and the
\* message's port cast to u16.
BackendReference(w) ==
    CASE w.kind = "none" -> [kind |-> "Invalid"]
      [] w.kind = "backend" -> [kind |-> "Backend"]
      [] OTHER -> [kind |-> "Service", key |-> w.key,
                   name |-> SplitServiceKey(w.key), port |-> U16(w.port)]

\* The reference's conversion returned NamespacedHostnameParse.
RefFails(r) == r.kind = "Service" /\ ~r.name.ok

\* Wire backend references: no kind, a backend name, or a service key with
\* the message's port.
WireRefs ==
    {[kind |-> "none"], [kind |-> "backend"]}
        \cup [kind: {"service"}, key: SvcKeys, port: WirePorts]

\* Store a converted entity, or keep the old one when conversion failed.
Apply(store, k, v, failed) ==
    store' = IF failed THEN store ELSE [store EXCEPT ![k] = v]

=============================================================================
