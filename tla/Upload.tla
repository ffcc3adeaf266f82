------------------------------- MODULE Upload -------------------------------
(***************************************************************************)
(* files/fetch.py, the uploads of files/storage.py and the two tools that  *)
(* upload: one call, from the source a model names to the request that     *)
(* carries the file to Lexware.  A source is a path on this machine, read  *)
(* in steps that another program's writes fall between, or a URL, asked    *)
(* for at another server, which may answer anything, stop in the middle or *)
(* take for ever.                                                          *)
(*                                                                         *)
(* A name is the length of its stem, its extension, and whether Windows    *)
(* has a device of it.  Where a path leads, links followed, does not       *)
(* change during a call.                                                   *)
(***************************************************************************)
EXTENDS UploadAddress, FiniteSets

CONSTANTS MaxUpload,    \* MAX_UPLOAD, in units of a chunk's least size
          MaxName,      \* MAX_NAME
          Urls,         \* URLs a model may name
          Entries,      \* what LXO_MCP_UPLOAD_URLS may hold
          Paths,        \* paths a model may name: [share, home, leads, ext]
          Directories,  \* what LXO_MCP_UPLOAD_DIR may be: [share, at], "" for none
          Responses,    \* what another server may answer, but for its body's length
          MaxWrites     \* bound: how often another program changes a file

IsName(name) == /\ DOMAIN name = {"stem", "ext", "device"}
                /\ name.stem \in Nat /\ name.device \in BOOLEAN

UploadAssumption ==
    /\ MaxUpload \in Nat \ {0} /\ MaxName \in Nat /\ MaxName > 5 /\ MaxWrites \in Nat
    /\ \A url \in Urls : url.path \in Seq(STRING) /\ IsName(url.last)
    /\ \A entry \in Entries : entry.path \in Seq(STRING)
    /\ \A response \in Responses : IsName(response.disposition)
ASSUME UploadAssumption

VARIABLES allowed,    \* settings.upload_urls
          directory,  \* settings.upload_path
          disk,       \* the size of the file at the path named, Absent where there is none
          writes,     \* how often another program changed one
          upload,     \* the state of the call
          asked,      \* history: the requests to other servers, and by what way
          touched,    \* history: the paths the file system was asked about at all
          looked,     \* history: the paths whose file was asked for
          sent        \* history: what was sent to Lexware

settings == <<allowed, directory>>
history == <<asked, touched, looked, sent>>
uploadVars == <<settings, disk, writes, upload, history>>

Absent == MaxUpload + 2
Sizes == 0..(MaxUpload + 1)

UploadTypes == [ext \in {".pdf", ".png", ".jpg", ".jpeg", ".xml"} |->
                  CASE ext = ".pdf" -> "pdf" [] ext = ".png" -> "png" [] ext = ".xml" -> "xml"
                    [] OTHER -> "jpeg"]

\* The first extension of each type.
Extension == [pdf |-> ".pdf", png |-> ".png", jpeg |-> ".jpg", xml |-> ".xml"]

Unsaid == {"octet-stream", ""}

Aliases(type) == IF type = "text/xml" THEN "xml" ELSE type

TypeOf(ext) == IF ext \in DOMAIN UploadTypes THEN UploadTypes[ext] ELSE "none"

------------------------------------------------------------------------------
\* The names of fetched files.
\* An extension that lost its last character, any other being ".exe".
Cut(ext) == CASE ext = ".pdf" -> ".pd" [] ext = ".png" -> ".pn" [] ext = ".jpg" -> ".jp"
              [] ext = ".jpeg" -> ".jpe" [] ext = ".xml" -> ".xm" [] OTHER -> ".ex"

Width(ext) == IF ext = "" THEN 0 ELSE IF ext = ".jpeg" THEN 5
              ELSE IF ext \in {".pd", ".pn", ".jp", ".xm", ".ex"} THEN 3 ELSE 4

NameWidth(name) == name.stem + Width(name.ext)

NoName == [stem |-> 0, ext |-> "", device |-> FALSE]

\* Shortened before its extension; and a device's name gets a character in
\* front, which a name of full length pays for with its last one.
Shortened(name) ==
    IF NameWidth(name) > MaxName THEN [name EXCEPT !.stem = MaxName - Width(name.ext)] ELSE name

NoDevice(name) ==
    IF ~name.device THEN name
    ELSE IF NameWidth(name) < MaxName THEN [name EXCEPT !.stem = @ + 1]
    ELSE IF name.ext = "" THEN name
    ELSE [name EXCEPT !.stem = MaxName - Width(Cut(name.ext)), !.ext = Cut(name.ext)]

SafeName(name) == NoDevice(Shortened(name))

FirstNamed(disposition, last) ==
    IF disposition # NoName THEN SafeName(disposition)
    ELSE IF last # NoName THEN SafeName(last)
    ELSE [stem |-> 7, ext |-> "", device |-> FALSE]   \* "receipt"

UploadName(disposition, last, type) ==
    LET name == FirstNamed(disposition, last)
        ext == Extension[type]
        room == MaxName - Width(ext)
    IN  IF name.ext \in DOMAIN UploadTypes THEN name
        ELSE [name EXCEPT !.stem = IF NameWidth(name) < room THEN NameWidth(name) ELSE room,
                          !.ext = ext]

\* accepted: the one check every upload passes.
Accepted_AnySize(size, name, type) ==
    /\ size > 0
    /\ type \in DOMAIN Extension
    /\ TypeOf(name.ext) = type
Accepted(size, name, type) ==
    /\ size > 0 /\ size <= MaxUpload
    /\ type \in DOMAIN Extension
    /\ TypeOf(name.ext) = type

------------------------------------------------------------------------------
NoUrl == [readable |-> FALSE, scheme |-> "", host |-> "", port |-> 0, user |-> FALSE,
          path |-> << >>, last |-> NoName]
NoPath == [share |-> "", home |-> FALSE, leads |-> "", ext |-> ""]
NoResponse == [status |-> 0, coded |-> FALSE, declared |-> 0, type |-> "", begins |-> "",
               disposition |-> NoName]

NoUpload == [pc |-> "idle", url |-> NoUrl, path |-> NoPath, response |-> NoResponse,
         size |-> 0, type |-> "", name |-> NoName, answer |-> ""]

\* A start refuses a setting that has an entry it cannot take.
UploadInit ==
    /\ allowed \in {entries \in SUBSET Entries :
                      Cardinality(entries) <= 2 /\ \A e \in entries : UrlPrefix(e)}
    /\ directory \in Directories
    /\ disk = Absent
    /\ writes = 0
    /\ upload = NoUpload
    /\ asked = {} /\ touched = {} /\ looked = {} /\ sent = {}

Goto(pc) == upload' = [upload EXCEPT !.pc = pc]

Answer(answer) == upload' = [upload EXCEPT !.pc = "answered", !.answer = answer]

At(pc) == upload.pc = pc

\* A file: URL is neither fetched nor read.
FileUrl == /\ At("idle")
           /\ Answer("refused")
           /\ UNCHANGED <<settings, disk, writes, history>>

By(url) == IF url.host \in LoopbackNames THEN "direct" ELSE "proxy"

\* fetch: the address is compared before anything is sent.
Fetch(url) ==
    /\ At("idle")
    /\ IF Within(url, allowed)
       THEN /\ asked' = asked \cup {[url |-> url, by |-> By(url)]}
            /\ upload' = [upload EXCEPT !.pc = "asking", !.url = url]
       ELSE Answer("refused") /\ UNCHANGED asked
    /\ UNCHANGED <<settings, disk, writes, touched, looked, sent>>

\* _get: refused at the first rule broken, and no redirect is followed.
TakesResponse(response) ==
    LET type == Aliases(response.type)
    IN  /\ response.status = 200
        /\ ~response.coded
        /\ response.declared <= MaxUpload
        /\ type \in Unsaid \cup DOMAIN Extension

Respond(response) ==
    /\ At("asking")
    /\ IF TakesResponse(response)
       THEN upload' = [upload EXCEPT !.pc = "body", !.response = response,
                                     !.type = Aliases(response.type)]
       ELSE Answer("refused")
    /\ UNCHANGED <<settings, disk, writes, history>>

\* _capped: nothing is kept of a body that passes the ceiling.
Chunk(size) ==
    /\ At("body")
    /\ IF upload.size + size > MaxUpload THEN Answer("refused")
       ELSE upload' = [upload EXCEPT !.size = @ + size]
    /\ UNCHANGED <<settings, disk, writes, history>>

\* _sniffed: the first bytes decide for a server that says no type.
Sniffed(type, begins) == IF type \in Unsaid THEN begins ELSE type

BodyEnds ==
    /\ At("body")
    /\ LET type == Sniffed(upload.type, upload.response.begins)
           name == UploadName(upload.response.disposition, upload.url.last, type)
       IN  IF type \in DOMAIN Extension /\ Accepted(upload.size, name, type)
           THEN upload' = [upload EXCEPT !.pc = "ready", !.name = name, !.type = type]
           ELSE Answer("refused")
    /\ UNCHANGED <<settings, disk, writes, history>>

\* The 30 seconds pass, or the connection breaks.
FetchFails ==
    /\ upload.pc \in {"asking", "body"}
    /\ Answer("not fetched")
    /\ UNCHANGED <<settings, disk, writes, history>>

------------------------------------------------------------------------------
\* The share is compared as text, before the file system is asked.
RefuseAnotherShare(path) == path.share # "" /\ path.share # directory.share

Inside(path) == directory.at # "" => path.leads = directory.at

\* _read_upload: the directory is compared before the file is looked for.
ReadUpload(path) ==
    /\ At("idle")
    /\ IF RefuseAnotherShare(path) \/ ~path.home
       THEN Answer("refused") /\ UNCHANGED <<disk, touched>>
       ELSE /\ touched' = touched \cup {path}
            /\ disk' \in Sizes \cup {Absent}   \* whatever is there
            /\ IF Inside(path) THEN upload' = [upload EXCEPT !.pc = "looking", !.path = path]
               ELSE Answer("refused")
    /\ UNCHANGED <<settings, writes, asked, looked, sent>>

IsFile ==
    /\ At("looking")
    /\ looked' = looked \cup {upload.path}
    /\ IF disk = Absent THEN Answer("refused") ELSE Goto("measuring")
    /\ UNCHANGED <<settings, disk, writes, asked, touched, sent>>

Stat ==
    /\ At("measuring")
    /\ disk # Absent
    /\ IF disk > MaxUpload \/ TypeOf(upload.path.ext) = "none" THEN Answer("refused")
       ELSE upload' = [upload EXCEPT !.pc = "reading", !.type = TypeOf(upload.path.ext),
                                     !.name = [NoName EXCEPT !.ext = upload.path.ext]]
    /\ UNCHANGED <<settings, disk, writes, history>>

ReadBytes ==
    /\ At("reading")
    /\ disk # Absent
    /\ IF Accepted(disk, upload.name, upload.type)
       THEN upload' = [upload EXCEPT !.pc = "ready", !.size = disk]
       ELSE Answer("refused")
    /\ UNCHANGED <<settings, disk, writes, history>>

\* on_disk turns what the system refuses - a file that went, or that somebody
\* else holds open - into an answer.
ReadFails ==
    /\ upload.pc \in {"looking", "measuring", "reading"}
    /\ Answer("not read")
    /\ UNCHANGED <<settings, disk, writes, history>>

\* Another program writes, replaces or removes the file.
OtherWrites(size) ==
    /\ writes < MaxWrites
    /\ upload.pc \in {"looking", "measuring", "reading"}
    /\ disk' = size
    /\ writes' = writes + 1
    /\ UNCHANGED <<settings, upload, history>>

------------------------------------------------------------------------------
\* POST /v1/files, which makes a voucher for the file, or to the files of one:
\* never retried. Connection says what a caller is told of it.
Post(to) ==
    /\ At("ready")
    /\ sent' = sent \cup {[to |-> to, size |-> upload.size, name |-> upload.name,
                           type |-> upload.type, url |-> upload.url,
                           said |-> upload.response.type, begins |-> upload.response.begins]}
    /\ Answer("sent")
    /\ UNCHANGED <<settings, disk, writes, asked, touched, looked>>

UploadFile == Post("files")

AttachFile == Post("voucher files")

\* There is no key to send it with, which nothing asks before.
NoKey == /\ At("ready")
         /\ Answer("refused")
         /\ UNCHANGED <<settings, disk, writes, history>>

Cancelled == /\ upload.pc \notin {"idle", "answered"}
             /\ Answer("none")
             /\ UNCHANGED <<settings, disk, writes, history>>

UploadFrom == \/ FileUrl
              \/ \E url \in Urls : Fetch(url)
              \/ \E path \in Paths : ReadUpload(path)

UploadNext ==
    \/ UploadFrom
    \/ (\E response \in Responses : Respond(response))
    \/ (\E size \in 1..MaxUpload : Chunk(size))
    \/ BodyEnds \/ FetchFails
    \/ IsFile \/ Stat \/ ReadBytes \/ ReadFails
    \/ UploadFile \/ AttachFile \/ NoKey \/ Cancelled
    \/ \E size \in Sizes \cup {Absent} : OtherWrites(size)

UploadSpec == UploadInit /\ [][UploadNext]_uploadVars

------------------------------------------------------------------------------
(***************************************************************************)
(* The rules of fetch.py and _read_upload: whatever source a model names   *)
(* and whatever a server answers, a request goes to an address the setting *)
(* names, however its path is read there, in the clear to this machine     *)
(* alone, which no proxy is handed a link to; a network path is not so     *)
(* much as resolved unless the directory is on its share; and no file      *)
(* outside the directory is looked for.                                    *)
(***************************************************************************)
ReachedOnlyWhatIsAllowed ==
    /\ \A request \in asked :
          /\ \E entry \in allowed : /\ SamePlace(request.url, entry)
                                    /\ Below(request.url.path, entry.path)
          /\ request.url.host \in LoopbackNames => request.by = "direct"
          /\ request.url.scheme = "http" => request.url.host \in LoopbackNames
    /\ \A path \in touched : path.share # "" => path.share = directory.share
    /\ \A path \in looked : directory.at # "" => path.leads = directory.at

(***************************************************************************)
(* accepted: "The one check every upload passes, wherever its bytes came   *)
(* from."  What reaches Lexware is something, is no larger than it takes,  *)
(* and is called what it is, whatever a program did to the file between    *)
(* its measuring and its reading, whatever length and type a server        *)
(* declared; and a fetched file's name fits, however long its header or    *)
(* its link made it.                                                       *)
(***************************************************************************)
SentAsAccepted ==
    \A file \in sent :
        /\ file.size \in 1..MaxUpload
        /\ TypeOf(file.name.ext) = file.type
        /\ file.url # NoUrl => /\ NameWidth(file.name) <= MaxName
                               /\ file.said \in Unsaid => file.begins = file.type
==============================================================================
