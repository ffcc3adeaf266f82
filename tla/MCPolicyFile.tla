---------------------------- MODULE MCPolicyFile -----------------------------
(* PolicyFile: a tool that reads, one that writes, and one that deletes and  *)
(* comes with an upgrade; two names of profiles nobody can tell apart.       *)
EXTENDS PolicyFile, TLC

MCTools == {"read", "write", "delete"}
MCReleases == <<{"read", "write"}, MCTools>>
MCNames == {"office", "Office"}
MCAlike(n, m) == {n, m} \subseteq MCNames

File(on, odd, named) == [form |-> "object", on |-> on, odd |-> odd, named |-> named]

MCHandPolicies == {Absent, Broken, File({"write"}, {}, {"write"}),
                   File({}, {"delete"}, {"read", "delete"})}
MCHandProfiles == {[NoProfiles EXCEPT !.form = "broken"],
                   [form |-> "object",
                    holds |-> "Office" :> [tools |-> {"read"}, known |-> {"read", "write"}]]}
MCBundles == {File({"read"}, {"write"}, {"read", "write"})}
==============================================================================
