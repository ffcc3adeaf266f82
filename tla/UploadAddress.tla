---------------------------- MODULE UploadAddress ----------------------------
(***************************************************************************)
(* files/fetch.py and settings/parse.py: which addresses a file to upload  *)
(* may be fetched from.  A path is the sequence of its segments, << >>     *)
(* where an address has none, and a trailing slash ends it in "".          *)
(* Segments are texts as they are written; what unquote makes of the       *)
(* escaped ones is a table.                                                *)
(***************************************************************************)
EXTENDS Naturals, SequencesExt

CONSTANTS LoopbackNames,     \* the hosts that are this machine
          Unquoted,          \* unquote of the segments with a percent sign
          Backslashed,       \* what those with a backslash are to some servers
          WithoutParameters  \* those with a semicolon, up to it

\* Nothing is written so that it is nothing, or a step, and something else too.
AddressAssumption ==
    /\ \A segment \in DOMAIN Unquoted : Unquoted[segment] \in Seq(STRING)
    /\ "" \notin DOMAIN Unquoted
    /\ {"", ".", ".."} \cap DOMAIN WithoutParameters = {}
ASSUME AddressAssumption

\* unquote: an escaped slash parts a segment, an escaped percent sign stays one.
Decode(segment) == IF segment \in DOMAIN Unquoted THEN Unquoted[segment] ELSE <<segment>>

DecodePath(path) == FlattenSeq([i \in DOMAIN path |-> Decode(path[i])])

Percented == DOMAIN Unquoted

Bare(segment) == IF segment \in DOMAIN WithoutParameters THEN WithoutParameters[segment]
                 ELSE segment

PlainPath_NotTwice(path) ==
    \A segment \in ToSet(DecodePath(path)) :
        /\ segment \notin DOMAIN Backslashed
        /\ Bare(segment) \notin {".", ".."}
PlainPath(path) ==
    \A segment \in ToSet(DecodePath(path)) :
        /\ segment \notin DOMAIN Backslashed
        /\ segment \notin Percented
        /\ Bare(segment) \notin {".", ".."}

\* The port, which is 0 where an address states none.
DefaultPort == [https |-> 443, http |-> 80]

Port(url) == IF url.port # 0 THEN url.port ELSE DefaultPort[url.scheme]

SamePlace(url, entry) ==
    url.scheme = entry.scheme /\ url.host = entry.host /\ Port(url) = Port(entry)

OrSlash(path) == IF path = << >> THEN <<"">> ELSE path

\* A base that ends in a slash covers what follows it, another one itself and
\* what is below it.
Under(path, base) ==
    IF base = << >> \/ Last(base) = ""
    THEN /\ IsPrefix(Front(OrSlash(base)), OrSlash(path))
         /\ Len(OrSlash(path)) >= Len(OrSlash(base))
    ELSE IsPrefix(base, path)

\* An entry of LXO_MCP_UPLOAD_URLS that a start accepts.
UrlPrefix(entry) ==
    /\ entry.readable /\ entry.host # "" /\ ~entry.user /\ ~entry.query
    /\ PlainPath(entry.path)
    /\ entry.scheme = "http" => entry.host \in LoopbackNames

Within(url, allowed) ==
    /\ url.readable /\ url.host # "" /\ ~url.user
    /\ PlainPath(url.path)
    /\ \E entry \in allowed : SamePlace(url, entry) /\ Under(url.path, entry.path)

------------------------------------------------------------------------------
(***************************************************************************)
(* What another server may make of a path: decoded once or twice,          *)
(* parameters dropped or kept, a backslash taken for a slash or not, and   *)
(* then every step up taken.                                               *)
(***************************************************************************)
Ways == [twice : BOOLEAN, bare : BOOLEAN, backslash : BOOLEAN]

Slashes(segment) == IF segment \in DOMAIN Backslashed THEN Backslashed[segment] ELSE <<segment>>

Climb(path, segment) == CASE segment = ".." -> IF path = << >> THEN path ELSE Front(path)
                          [] segment \in {"", "."} -> path
                          [] OTHER -> Append(path, segment)

Walk(path) ==
    LET walk[n \in 0..Len(path)] == IF n = 0 THEN << >> ELSE Climb(walk[n - 1], path[n])
    IN  walk[Len(path)]

ReadAs(path, way) ==
    LET once == DecodePath(path)
        decoded == IF way.twice THEN DecodePath(once) ELSE once
        parted == IF way.backslash
                  THEN FlattenSeq([i \in DOMAIN decoded |-> Slashes(decoded[i])])
                  ELSE decoded
    IN  Walk(IF way.bare THEN [i \in DOMAIN parted |-> Bare(parted[i])] ELSE parted)

\* However the server reads both, the path is at the base or below it.
Below(path, base) == \A way \in Ways : IsPrefix(ReadAs(base, way), ReadAs(path, way))
==============================================================================
