----------------------------- MODULE WriteTools ------------------------------
(***************************************************************************)
(* The tools that write to the books (tools/contacts.py, articles.py,      *)
(* vouchers.py, sales_documents.py) over the endpoints of api/client.py.   *)
(*                                                                         *)
(* An update is three requests and two of the caller's decisions: it has   *)
(* looked at a record - found it in a search or read it by its id or its   *)
(* number -, names the version it saw, the tool reads the record           *)
(* again, compares, lays the arguments over what it read and replaces the  *)
(* whole record.  Other calls and people in the web app change records in  *)
(* between, and a request may be carried out after its caller was told     *)
(* that nobody knows (Connection has the retries; here a request is        *)
(* carried out at most once, which is what Connection is proved to keep).  *)
(*                                                                         *)
(* The service is what the comments say was measured of it: it refuses a   *)
(* PUT of another version, numbers roles, works out the other price, and   *)
(* refuses the bodies of Refusable.                                        *)
(***************************************************************************)
EXTENDS Payloads

CONSTANTS Calls,
          Asks,      \* Asks[c]: what call c may be: [does, kind, id, args]
          FirstBooks,\* the books a run may start with, sequences of records
          Numbers,   \* the voucher numbers people have
          Edits,     \* Edits[kind]: what a person may lay over a record of that kind
          MaxEdits   \* bound: how often people do

VARIABLES books,     \* the records of the account, in the order they were made
          call,      \* each call's place, request and answers
          wire,      \* the calls whose request may still be carried out
          edits

vars == <<books, call, wire, edits>>

Kinds == {"contact", "voucher", "article", "document"}

Idle == [pc |-> "idle", ask |-> Nothing, by |-> "none", seen |-> Nothing, base |-> Nothing,
         body |-> Nothing, told |-> "none"]

------------------------------------------------------------------------------
(* The service *)

Doc(c) == books[call[c].ask.id].doc
\* A path names a kind and an id: another kind's id is not found under it.
Lives(kind, id) == id \in DOMAIN books /\ books[id].kind = kind /\ books[id].doc # Nothing
Found(c) == Lives(call[c].ask.kind, call[c].ask.id)

Disagree(body) ==
    LET lines == Field(body, "voucherItems", << >>)
    IN  /\ lines # << >>
        /\ <<body.totalTaxAmount, body.totalGrossAmount>>
               # <<TaxTotal(lines), GrossTotal(lines, Field(body, "taxType", "none"))>>

\* What each type of document is refused without.
LacksPart(request) ==
    \/ /\ request.type \in {"invoice", "order-confirmation", "delivery-note"}
       /\ "shippingConditions" \notin DOMAIN request
    \/ request.type = "quotation" /\ "expirationDate" \notin DOMAIN request
    \/ request.type = "dunning" /\ "precedingSalesVoucherId" \notin DOMAIN request

\* The requests that payloads.py says were measured to be refused, whatever is
\* stored. A document's has its type in the path, and parameters beside its body.
Refusable(does, kind, request) ==
    CASE kind = "contact" -> {"company", "person"} \subseteq DOMAIN request
      [] kind = "voucher" ->
            \/ does = "create" /\ "voucherStatus" \in DOMAIN request
            \/ Field(request, "voucherStatus", "open") # "open"
            \/ Given(request, "contactId") = request.useCollectiveContact
            \/ Disagree(request)
      [] kind = "document" ->
            \/ LacksPart(request)
            \/ \E f \in {"voucherDate", "expirationDate", "shippingConditions"} \cap DOMAIN request :
                  "time" \notin DOMAIN request[f]
            \/ \E i \in DOMAIN request.lineItems :
                  /\ Given(request.lineItems[i], "id")
                  /\ request.lineItems[i].type \notin {"material", "service"}
      [] OTHER -> FALSE

\* What it keeps of every record, whoever wrote it; of the fields that are its
\* own a record here has the version, the organisation and a voucher's status.
ValidContact(doc) ==
    /\ ("company" \in DOMAIN doc) # ("person" \in DOMAIN doc)
    /\ \A block \in {"company", "person"} \cap DOMAIN doc : doc[block] # Nothing
    /\ "roles" \in DOMAIN doc
    /\ \A r \in DOMAIN doc.roles : doc.roles[r] # Nothing

ValidVoucher(doc) ==
    /\ {"voucherStatus", "useCollectiveContact", "totalTaxAmount", "totalGrossAmount"}
           \subseteq DOMAIN doc
    /\ Given(doc, "contactId") # doc.useCollectiveContact
    /\ ~Disagree(doc)

ValidArticle(doc) ==
    /\ "price" \in DOMAIN doc
    /\ {"leadingPrice", "netPrice", "grossPrice"} \subseteq DOMAIN doc.price
    /\ doc.price.leadingPrice \in {"NET", "GROSS"}

Valid(kind, doc) ==
    /\ {"version", "organizationId"} \subseteq DOMAIN doc
    /\ doc.version \in Nat /\ doc.organizationId = "org"
    /\ {"id", "contactName", "createdDate", "updatedDate"} \cap DOMAIN doc = {}
    /\ CASE kind = "contact" -> ValidContact(doc)
         [] kind = "voucher" -> ValidVoucher(doc)
         [] kind = "article" -> ValidArticle(doc)
         [] OTHER -> TRUE

Numbered(roles) ==
    [r \in DOMAIN roles |-> IF roles[r] = Nothing THEN [number |-> 1] ELSE roles[r]]

\* Tax stands for one cent a percent, whatever the price.
Priced(price) ==
    LET rate == Field(price, "taxRate", 0)
    IN  IF price.leadingPrice = "NET"
        THEN price ++ [grossPrice |-> price.netPrice + rate]
        ELSE price ++ [netPrice |-> price.grossPrice - rate]

\* What a record becomes when body replaces old, Nothing for a new one.
Stored(kind, body, old) ==
    [version |-> Field(old, "version", 0) + 1]
    ++ (CASE kind = "contact" -> [roles |-> Numbered(body.roles)]
          [] kind = "voucher" ->
                [voucherStatus |-> Field(body, "voucherStatus", Field(old, "voucherStatus", "open"))]
          [] kind = "article" -> [price |-> Priced(body.price)]
          [] OTHER -> Nothing)
    ++ body ++ [organizationId |-> "org"]

(* What the reading tools show of a record (formatting.py) *)

Cleaned(object) == [f \in {g \in DOMAIN object : object[g] # Nothing} |-> object[f]]

\* get_contact, get_voucher, get_article
Shown(doc) ==
    LET kept == Without(doc, {"organizationId"})
    IN  IF Given(kept, "roles")
        THEN Put("roles", Cleaned(kept.roles)) ++ Without(kept, {"roles"})
        ELSE kept

EmailKinds == <<"business", "office", "private", "other">>
PhoneKinds == <<"business", "office", "mobile", "private", "fax", "other">>

\* The one address or number a row has room for.
FirstEntry(f, block, kinds) ==
    LET there == SelectSeq(kinds, LAMBDA k : k \in InUse(block))
    IN  IF there = << >> THEN Nothing ELSE Sole(f, Head(block[Head(there)]))

ContactName(doc) ==
    IF Given(Block(doc, "company"), "name") THEN <<doc.company.name>>
    ELSE LET person == Block(doc, "person")
             parts  == SelectSeq(<<"firstName", "lastName">>, LAMBDA f : Given(person, f))
         IN  [i \in DOMAIN parts |-> person[parts[i]]]

\* A row of a search: enough to choose by, and the version. One of the voucher
\* list has neither version nor lines.
ContactRow(doc) ==
    FirstEntry("email", Block(doc, "emailAddresses"), EmailKinds)
    ++ FirstEntry("phone", Block(doc, "phoneNumbers"), PhoneKinds)
    ++ [version |-> doc.version, name |-> ContactName(doc), roles |-> DOMAIN doc.roles,
        type |-> IF Given(doc, "company") THEN "company" ELSE "person",
        numbers |-> {doc.roles[r] : r \in DOMAIN doc.roles} \ {Nothing}]

ArticleRow(doc) == Without(doc, {"organizationId", "description", "note", "createdDate", "updatedDate"})

VoucherRow(doc) == Mentioned(doc, [voucherStatus |-> "voucherStatus", voucherNumber |-> "voucherNumber",
                                   totalGrossAmount |-> "totalAmount"])

Row(kind, doc) ==
    CASE kind = "contact" -> ContactRow(doc)
      [] kind = "article" -> ArticleRow(doc)
      [] kind = "voucher" -> VoucherRow(doc)

\* What the caller was shown, as the record is now.
View(by, kind, doc) == IF by = "search" THEN Row(kind, doc) ELSE Shown(doc)

------------------------------------------------------------------------------
(* The tools *)

\* What an update takes beside the record's id and version.
UpdateTakes ==
    [contact |-> {"name", "first_name", "salutation", "roles", "email", "phone",
                  "billing_address", "shipping_address", "vat_registration_id",
                  "tax_number", "note"},
     voucher |-> {"voucher_date", "due_date", "voucher_number", "contact_id",
                  "use_collective_contact", "items", "total_gross_amount",
                  "total_tax_amount", "remark", "finalize", "confirm"},
     article |-> {"title", "article_type", "unit_name", "price", "tax_rate",
                  "leading_price", "article_number", "gtin", "description", "note"}]

\* What a creation takes, and what it does not go without as far as the bodies
\* depend on it.
CreateTakes ==
    [contact |-> {"kind"} \cup UpdateTakes["contact"],
     voucher |-> {"voucher_type", "voucher_date", "tax_type", "items", "voucher_number",
                  "contact_id", "due_date", "shipping_date", "total_gross_amount",
                  "total_tax_amount", "remark"},
     article |-> UpdateTakes["article"],
     document |-> {"document_type", "contact_id", "voucher_date", "items", "tax_type",
                   "currency", "shipping_date", "expiration_date",
                   "preceding_sales_voucher_id", "title", "introduction", "remark",
                   "finalize", "confirm"}]

CreateNeeds ==
    [contact |-> {"kind", "name", "roles"}, voucher |-> {"tax_type", "items"},
     article |-> {"price", "tax_rate", "leading_price"},
     document |-> {"document_type", "contact_id", "tax_type", "items"}]

IsAsk(a) ==
    /\ a.does \in {"create", "update", "delete"}
    /\ a.kind \in Kinds /\ a.id \in Nat
    /\ a.does = "update" => /\ a.kind \in DOMAIN UpdateTakes
                            /\ DOMAIN a.args \subseteq UpdateTakes[a.kind]
                            /\ Field(a.args, "use_collective_contact", TRUE) \in BOOLEAN
    /\ a.does = "create" => /\ CreateNeeds[a.kind] \subseteq DOMAIN a.args
                            /\ DOMAIN a.args \subseteq CreateTakes[a.kind]
                            /\ a.kind = "document" =>
                                  \A i \in DOMAIN a.args.items : Given(a.args.items[i], "item_type")
    /\ a.does = "delete" => a.kind = "article"
    /\ Field(a.args, "leading_price", "NET") \in {"NET", "GROSS"}

WriteToolsAssumption ==
    /\ \A c \in Calls : \A a \in Asks[c] : IsAsk(a)
    /\ \A first \in FirstBooks :
          /\ first \in Seq(ToSet(first))
          /\ \A i \in DOMAIN first : /\ DOMAIN first[i] = {"kind", "doc"}
                                     /\ first[i].kind \in Kinds
                                     /\ Valid(first[i].kind, first[i].doc)
    /\ MaxEdits \in Nat
ASSUME WriteToolsAssumption

Init == /\ books \in FirstBooks
        /\ call = [c \in Calls |-> Idle]
        /\ wire = {}
        /\ edits = 0

Ends(c, told) == call' = [call EXCEPT ![c].pc = "ended", ![c].told = told]

\* A creation and a deletion need no look at the record.
Ask(c) ==
    /\ call[c].pc = "idle"
    /\ \E a \in Asks[c] :
        /\ a.does # "update"
        /\ call' = [call EXCEPT ![c].pc = "looked", ![c].ask = a]
    /\ UNCHANGED <<books, wire, edits>>

Sees(c, a, by, pc) ==
    call' = [call EXCEPT ![c].pc = pc, ![c].ask = a, ![c].by = by,
                         ![c].seen = View(by, a.kind, books[a.id].doc)]

\* A search answers with one page of rows, whichever they are, and the caller
\* takes the record it wants to change. A row of a voucher is to be read next.
SearchContacts(c, a) == a.kind = "contact" /\ Sees(c, a, "search", "looked")
SearchArticles(c, a) == a.kind = "article" /\ Sees(c, a, "search", "looked")
SearchVouchers(c, a) == a.kind = "voucher" /\ Sees(c, a, "search", "found")

Search(c) ==
    /\ call[c].pc = "idle"
    /\ \E a \in Asks[c] :
        /\ a.does = "update" /\ Lives(a.kind, a.id)
        /\ SearchContacts(c, a) \/ SearchArticles(c, a) \/ SearchVouchers(c, a)
    /\ UNCHANGED <<books, wire, edits>>

\* The record in full, by an id from a search or one the caller had.
Wants(c) == IF call[c].pc = "found" THEN {call[c].ask}
            ELSE {a \in Asks[c] : a.does = "update"}

GetRecord(c) ==
    /\ call[c].pc \in {"idle", "found"}
    /\ \E a \in Wants(c) :
        IF Lives(a.kind, a.id) THEN Sees(c, a, "get", "looked") ELSE Ends(c, "undone")
    /\ UNCHANGED <<books, wire, edits>>

\* A number names a voucher if it names just one.
WithNumber(n) == {id \in DOMAIN books : Lives("voucher", id)
                                      /\ Field(books[id].doc, "voucherNumber", "none") = n}

GetByNumber(c) ==
    /\ call[c].pc = "idle"
    /\ \E n \in Numbers, a \in Wants(c) :
        /\ a.kind = "voucher"
        /\ IF WithNumber(n) = {a.id} THEN Sees(c, a, "number", "looked")
           ELSE Cardinality(WithNumber(n)) # 1 /\ Ends(c, "undone")
    /\ UNCHANGED <<books, wire, edits>>

\* What each tool refuses before anything is read or sent.
Unconfirmed(args) == Finalizes(args) /\ ~Field(args, "confirm", FALSE)

CreateContactRefuses(args) == Misplaced(Nothing, args) # {}
UpdateVoucherRefuses(args) == Unconfirmed(args) \/ TwoContactsOrNone(args)
DeleteArticleRefuses(args) == ~Field(args, "confirm", FALSE)
CreateDocumentRefuses(args) ==
    \/ Unconfirmed(args)
    \/ LacksTypeField(args)
    \/ \E i \in DOMAIN args.items : LineRefused(args.items[i])

RefusedAtOnce(ask) ==
    CASE <<ask.does, ask.kind>> = <<"create", "contact">>  -> CreateContactRefuses(ask.args)
      [] <<ask.does, ask.kind>> = <<"create", "document">> -> CreateDocumentRefuses(ask.args)
      [] <<ask.does, ask.kind>> = <<"update", "voucher">>  -> UpdateVoucherRefuses(ask.args)
      [] <<ask.does, ask.kind>> = <<"delete", "article">>  -> DeleteArticleRefuses(ask.args)
      [] OTHER -> FALSE

\* The request of each creation. A voucher made without a contact is the
\* collective one's. A document's type is in the path it is posted to, and
\* what it follows and whether it is issued are parameters of the request.
CreateContact(args) == ContactBody(Nothing, args)
CreateVoucher(args) ==
    VoucherBody(Nothing, args ++ [use_collective_contact |-> ~Given(args, "contact_id")])
CreateArticle(args) == ArticleBody(Nothing, args)
CreateDocument(args) ==
    SalesDocumentBody(args)
    ++ [type |-> args.document_type]
    ++ Mentioned(args, [preceding_sales_voucher_id |-> "precedingSalesVoucherId"])
    ++ (IF Finalizes(args) THEN [finalize |-> TRUE] ELSE Nothing)

Creation(kind, args) ==
    CASE kind = "contact"  -> CreateContact(args)
      [] kind = "voucher"  -> CreateVoucher(args)
      [] kind = "article"  -> CreateArticle(args)
      [] kind = "document" -> CreateDocument(args)

Refuse(c) ==
    /\ call[c].pc = "looked"
    /\ RefusedAtOnce(call[c].ask)
    /\ Ends(c, "undone")
    /\ UNCHANGED <<books, wire, edits>>

\* A creation's POST, or a deletion's DELETE.
Send(c) ==
    /\ call[c].pc = "looked"
    /\ call[c].ask.does # "update"
    /\ ~RefusedAtOnce(call[c].ask)
    /\ call' = [call EXCEPT
                  ![c].pc = "sent",
                  ![c].body = IF call[c].ask.does = "delete" THEN Nothing
                              ELSE Creation(call[c].ask.kind, call[c].ask.args)]
    /\ wire' = wire \cup {c}
    /\ UNCHANGED <<books, edits>>

\* An update's GET is answered.
Read(c) ==
    /\ call[c].pc = "looked"
    /\ call[c].ask.does = "update"
    /\ ~RefusedAtOnce(call[c].ask)
    /\ IF Found(c)
       THEN call' = [call EXCEPT ![c].pc = "read", ![c].base = Doc(c)]
       ELSE Ends(c, "undone")
    /\ UNCHANGED <<books, wire, edits>>

\* require_version, with the version the caller saw.
VersionHolds_NotAsked(c) == TRUE
VersionHolds(c) == call[c].base.version = call[c].seen.version

\* What the record itself forbids, and the body that replaces it.
UpdateContactRefuses(base, args) == Misplaced(base, args) # {}
UpdateContact(base, args) == ContactBody(base, args)
UpdateVoucherHeld(base, args) == NotUnchecked(base, args)
UpdateVoucher(base, args) == VoucherBody(base, args)
UpdateArticle(base, args) == ArticleBody(base, args)

MayReplace(c) ==
    LET args == call[c].ask.args
        base == call[c].base
    IN  CASE call[c].ask.kind = "contact" -> ~UpdateContactRefuses(base, args)
          [] call[c].ask.kind = "voucher" -> ~UpdateVoucherHeld(base, args)
          [] OTHER -> TRUE

Replacement(kind, base, args) ==
    CASE kind = "contact" -> UpdateContact(base, args)
      [] kind = "voucher" -> UpdateVoucher(base, args)
      [] kind = "article" -> UpdateArticle(base, args)

\* The rest of an update: compare, merge, and PUT.
Replace(c) ==
    /\ call[c].pc = "read"
    /\ IF VersionHolds(c) /\ MayReplace(c)
       THEN /\ call' = [call EXCEPT ![c].pc = "sent",
                                    ![c].body = Replacement(call[c].ask.kind,
                                                            call[c].base, call[c].ask.args)]
            /\ wire' = wire \cup {c}
       ELSE Ends(c, "undone") /\ UNCHANGED wire
    /\ UNCHANGED <<books, edits>>

------------------------------------------------------------------------------
(* What becomes of a request *)

Current(c) == Found(c) /\ call[c].body.version = Doc(c).version

\* The caller hears of it, unless it has given up.
Hears(c, told) == IF call[c].pc = "sent" THEN Ends(c, told) ELSE UNCHANGED call

\* Whether the service carries c's request out, and the books if it does.
Accepts(c) ==
    LET ask == call[c].ask
    IN  CASE ask.does = "create" -> ~Refusable(ask.does, ask.kind, call[c].body)
          [] ask.does = "update" -> Current(c) /\ ~Refusable(ask.does, ask.kind, call[c].body)
          [] ask.does = "delete" -> Found(c)

After(c) ==
    LET ask  == call[c].ask
        body == call[c].body
    IN  CASE ask.does = "create" -> Append(books, [kind |-> ask.kind,
                                                   doc  |-> Stored(ask.kind, body, Nothing)])
          [] ask.does = "update" -> [books EXCEPT ![ask.id].doc = Stored(ask.kind, body, @)]
          [] ask.does = "delete" -> [books EXCEPT ![ask.id].doc = Nothing]

Lands(c) ==
    /\ c \in wire
    /\ Accepts(c)
    /\ books' = After(c)
    /\ wire' = wire \ {c}
    /\ Hears(c, "done")
    /\ UNCHANGED edits

Bounces(c) ==
    /\ c \in wire
    /\ ~Accepts(c)
    /\ wire' = wire \ {c}
    /\ Hears(c, "undone")
    /\ UNCHANGED <<books, edits>>

\* A booked voucher may be refused whatever the version.
BouncesBooked(c) ==
    /\ c \in wire
    /\ call[c].ask.kind = "voucher"
    /\ call[c].ask.does = "update"
    /\ Found(c)
    /\ Doc(c).voucherStatus # "unchecked"
    /\ wire' = wire \ {c}
    /\ Hears(c, "undone")
    /\ UNCHANGED <<books, edits>>

\* No answer comes, and the request is lost or on its way still.
GiveUp(c) ==
    /\ call[c].pc = "sent"
    /\ Ends(c, "open")
    /\ \E w \in {wire, wire \ {c}} : wire' = w
    /\ UNCHANGED <<books, edits>>

\* Somebody changes a record in the web app, or its state moves on; it stays a
\* record the service has a place for.
Edit ==
    /\ edits < MaxEdits
    /\ edits' = edits + 1
    /\ \E id \in DOMAIN books :
        /\ books[id].doc # Nothing
        /\ \E e \in Edits[books[id].kind] :
            LET old == books[id].doc
                new == [version |-> old.version + 1] ++ e ++ old
            IN  Valid(books[id].kind, new) /\ books' = [books EXCEPT ![id].doc = new]
    /\ UNCHANGED <<call, wire>>

Next == \/ Edit
        \/ \E c \in Calls : \/ Ask(c) \/ Search(c) \/ GetRecord(c) \/ GetByNumber(c)
                            \/ Refuse(c) \/ Send(c) \/ Read(c) \/ Replace(c)
                            \/ Lands(c) \/ Bounces(c) \/ BouncesBooked(c) \/ GiveUp(c)

Spec == Init /\ [][Next]_vars

------------------------------------------------------------------------------
(* Properties *)

\* A record field by field, blocks of fields opened.
Opened == {"company", "person", "addresses", "roles", "price"}

Flat(doc) ==
    [p \in {<<f>> : f \in DOMAIN doc \ Opened}
           \cup UNION {{<<f, g>> : g \in DOMAIN doc[f]} : f \in DOMAIN doc \cap Opened} |->
        IF Len(p) = 1 THEN doc[p[1]] ELSE doc[p[1]][p[2]]]

\* The fields in which the value of an argument is to be found.
FieldsFor ==
    [name |-> {<<"company", "name">>, <<"person", "lastName">>},
     first_name |-> {<<"person", "firstName">>}, salutation |-> {<<"person", "salutation">>},
     vat_registration_id |-> {<<"company", "vatRegistrationId">>},
     tax_number |-> {<<"company", "taxNumber">>}, note |-> {<<"note">>},
     billing_address |-> {<<"addresses", "billing">>},
     shipping_address |-> {<<"addresses", "shipping">>},
     voucher_number |-> {<<"voucherNumber">>}, voucher_date |-> {<<"voucherDate">>},
     due_date |-> {<<"dueDate">>}, remark |-> {<<"remark">>},
     contact_id |-> {<<"contactId">>}, items |-> {<<"voucherItems">>},
     use_collective_contact |-> {<<"useCollectiveContact">>},
     total_gross_amount |-> {<<"totalGrossAmount">>},
     total_tax_amount |-> {<<"totalTaxAmount">>},
     title |-> {<<"title">>}, unit_name |-> {<<"unitName">>}, article_type |-> {<<"type">>},
     article_number |-> {<<"articleNumber">>}, gtin |-> {<<"gtin">>},
     description |-> {<<"description">>},
     tax_rate |-> {<<"price", "taxRate">>}, leading_price |-> {<<"price", "leadingPrice">>}]

\* What the descriptions of the tools say an argument changes besides.
Besides(old, arg, args) ==
    CASE arg \in {"contact_id", "use_collective_contact"} ->
            {<<"contactId">>, <<"useCollectiveContact">>}
      [] arg = "items" -> {<<"totalGrossAmount">>, <<"totalTaxAmount">>}
      [] arg = "finalize" -> IF args.finalize /\ args.confirm THEN {<<"voucherStatus">>} ELSE {}
      [] arg = "email" -> {<<"emailAddresses">>}
      [] arg = "phone" -> {<<"phoneNumbers">>}
      [] arg = "roles" -> {<<"roles", r>> : r \in SymDiff(DOMAIN old.roles, args.roles)}
      [] arg \in {"price", "tax_rate", "leading_price"} ->
            LET side == Field(args, "leading_price", old.price.leadingPrice)
            IN  {<<"price", "netPrice">>, <<"price", "grossPrice">>}
                \ IF arg = "price" THEN {} ELSE {<<"price", Leading(side)>>}
      [] OTHER -> {}

\* What no update of an article sends back of its price.
PriceLeftOut(old) == {<<"price", f>> : f \in DOMAIN Block(old, "price") \ PriceKeys}

Touched(old, args) ==
    {<<"version">>} \cup PriceLeftOut(old)
    \cup UNION {Field(FieldsFor, a, {}) \cup Besides(old, a, args) : a \in DOMAIN args}

\* One address or number, in the category of the only one there was.
Reached(old, new, f, value) ==
    LET used == {k \in DOMAIN Block(old, f) : old[f][k] # << >>}
    IN  \E k \in DOMAIN Block(new, f) :
            /\ new[f] = Sole(k, <<value>>)
            /\ Cardinality(used) = 1 => k \in used

\* What the arguments without such a field come to.
ComesToHold(old, new, args) ==
    /\ Given(args, "email") => Reached(old, new, "emailAddresses", args.email)
    /\ Given(args, "phone") => Reached(old, new, "phoneNumbers", args.phone)
    /\ Given(args, "roles") => DOMAIN new.roles = args.roles
    /\ Given(args, "price") => new.price[Leading(new.price.leadingPrice)] = args.price
    /\ Finalizes(args) => new.voucherStatus = "open"

ChangesOnlyGiven(old, new, args) ==
    LET before == Flat(old)
        after  == Flat(new)
    IN  /\ \A p \in (DOMAIN before \cup DOMAIN after) \ Touched(old, args) :
            p \in DOMAIN before \cap DOMAIN after /\ before[p] = after[p]
        /\ \A a \in DOMAIN args \cap DOMAIN FieldsFor :
            \E p \in FieldsFor[a] \cap DOMAIN after : after[p] = args[a]
        /\ ComesToHold(old, new, args)

\* Only the fields given are changed, and they hold what was given
\* (update_contact, update_article, update_voucher): one address or number
\* under the category in use, the roles, the price on the side that leads, a
\* booked voucher. Every other field of the record keeps the value it had when
\* the replacement arrived - also what somebody else wrote there, the number
\* of a role that stays, a total nobody touched, and an unchecked voucher's
\* status -, but for what is not PriceKeys' of a price, which is not sent.
UpdateLands(c) == c \in wire \ wire' /\ books' # books /\ call[c].ask.does = "update"

ChangesWhatWasGiven(c) ==
    ChangesOnlyGiven(Doc(c), books'[call[c].ask.id].doc, call[c].ask.args)

OnlyWhatWasGiven == [][\A c \in Calls : UpdateLands(c) => ChangesWhatWasGiven(c)]_vars

\* "If the contact changed since that read, nothing is written": a record is
\* only ever replaced while it is what the caller was shown of it before it
\* decided, however long its requests took.
OverWhatWasSeen ==
    [][\A c \in Calls : UpdateLands(c) => View(call[c].by, call[c].ask.kind, Doc(c)) = call[c].seen]_vars

\* Nothing goes out that the API is known to refuse whatever is stored, which
\* would spend the one request of a creation, or end an update in a 406 the
\* caller can do nothing about: no document without the part its type wants or
\* with a bare date, no article named on another's line, no voucher with a
\* status but "open" on an update, two contacts or none, totals that are not
\* its lines' - only those the caller states are the API's to check -, and no
\* contact both company and person. (payloads.py: require_type_fields,
\* _at_midnight, _line_item_body, voucher_body, VOUCHER_PUT_DROP,
\* require_one_contact, _is_company)
StatesTotals(c) == DOMAIN call[c].ask.args \cap {"total_gross_amount", "total_tax_amount"} # {}

NothingKnownRefused ==
    \A c \in wire : call[c].ask.does \in {"create", "update"} /\ ~StatesTotals(c)
                   => ~Refusable(call[c].ask.does, call[c].ask.kind, call[c].body)
==============================================================================
