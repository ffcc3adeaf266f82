------------------------------ MODULE MCUpload ------------------------------
(* Every address of two hosts under three settings, every way of writing a    *)
(* step up, paths inside and outside the directory and on two shares, and     *)
(* every combination of what a response may say.                              *)
EXTENDS Upload, TLC

MCUnquoted == "%2e%2e" :> <<"..">> @@ "%252e%252e" :> <<"%2e%2e">> @@ "x%2f.." :> <<"x", "..">>
              @@ "a%20b" :> <<"a b">>
MCBackslashed == "x\\.." :> <<"x", "..">>
MCWithoutParameters == "..;v" :> ".." @@ "b;v" :> "b"

Url(scheme, host, port, user, path, last) ==
    [readable |-> TRUE, scheme |-> scheme, host |-> host, port |-> port, user |-> user,
     path |-> path, last |-> last]

Long == [stem |-> 12, ext |-> "", device |-> FALSE]
LongDevice == [stem |-> 12, ext |-> ".pdf", device |-> TRUE]
Short(ext) == [stem |-> 1, ext |-> ext, device |-> FALSE]

Steps == {"..", "%2e%2e", "%252e%252e", "x%2f..", "x\\..", "..;v"}

MCUrls ==
    {Url("https", "files", port, FALSE, path, Long) :
        port \in {0, 443, 8443},
        path \in {<<"inbox", "a%20b">>, <<"inbox", "b;v">>, <<"inbox">>, <<"inboxes", "a">>, << >>}
                 \cup {<<"inbox", step, step, "a">> : step \in Steps}}
    \cup {Url("https", "files", 0, TRUE, <<"inbox", "a">>, Short(".pdf")),
          Url("https", "elsewhere", 0, FALSE, <<"inbox", "a">>, NoName),
          Url("http", "files", 0, FALSE, <<"inbox", "a">>, NoName),
          Url("http", "localhost", 80, FALSE, <<"a">>, NoName),
          NoUrl}

Entry(scheme, host, port, path, query) ==
    [readable |-> TRUE, scheme |-> scheme, host |-> host, port |-> port, user |-> FALSE,
     query |-> query, path |-> path]

MCEntries == {Entry("https", "files", 0, <<"inbox">>, FALSE),
              Entry("https", "files", 443, <<"inbox", "">>, FALSE),
              Entry("https", "files", 0, << >>, FALSE),
              Entry("https", "files", 0, <<"inbox", "..">>, FALSE),
              Entry("https", "files", 0, <<"inbox">>, TRUE),
              Entry("http", "localhost", 0, <<"">>, FALSE),
              Entry("http", "files", 0, <<"inbox">>, FALSE)}

MCPaths == {[share |-> "", home |-> TRUE, leads |-> "in", ext |-> ".pdf"],
            [share |-> "", home |-> TRUE, leads |-> "out", ext |-> ".xml"],
            [share |-> "s", home |-> TRUE, leads |-> "in", ext |-> ".jpeg"],
            [share |-> "t", home |-> TRUE, leads |-> "in", ext |-> ".doc"],
            [share |-> "", home |-> FALSE, leads |-> "in", ext |-> ".png"]}

MCDirectories == {[share |-> "", at |-> ""], [share |-> "", at |-> "in"],
                  [share |-> "s", at |-> "in"]}

MCResponses == [status : {200, 302, 500}, coded : BOOLEAN, declared : {0, MaxUpload + 1},
                type : {"pdf", "text/xml", "octet-stream", "html"},
                begins : {"pdf", "none"},
                disposition : {NoName, Short(".pdf"), Short(".exe"), LongDevice}]
==============================================================================
