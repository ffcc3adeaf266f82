------------------------------ MODULE Payloads -------------------------------
(***************************************************************************)
(* records/payloads.py: the body of a request, made of a tool's arguments. *)
(*                                                                         *)
(* A JSON object is a function on the names of its fields, and so are the  *)
(* arguments of a call: a field that is absent or null, and an argument    *)
(* left at None, is outside the domain.  A block of addresses or roles is  *)
(* an object of its own.  Amounts are whole cents.  PUT replaces a record, *)
(* so a body made on a base is that record with the arguments laid over    *)
(* it; a body made on Nothing creates.                                     *)
(***************************************************************************)
EXTENDS Naturals, SequencesExt

Nothing == [f \in {} |-> f]
Field(object, f, otherwise) == IF f \in DOMAIN object THEN object[f] ELSE otherwise
Block(object, f) == Field(object, f, Nothing)
Without(object, fields) == [f \in DOMAIN object \ fields |-> object[f]]
Sole(f, value) == [x \in {f} |-> value]
Put(f, block) == IF block = Nothing THEN Nothing ELSE Sole(f, block)
\* What is laid over an object wins.
a ++ b == [f \in DOMAIN a \cup DOMAIN b |-> IF f \in DOMAIN a THEN a[f] ELSE b[f]]
Given(args, arg) == arg \in DOMAIN args

\* _set for a whole table: the arguments given, under the API's names.
Mentioned(args, names) ==
    LET given == DOMAIN args \cap DOMAIN names
    IN  [f \in {names[a] : a \in given} |->
            args[CHOOSE a \in given : names[a] = f]]

Base(base) == IF base = Nothing THEN [version |-> 0] ELSE base

------------------------------------------------------------------------------
(* Contacts *)

\* A contact is a company by what its blocks hold: an update does not say.
IsCompany(base, args) ==
    IF Given(args, "kind") THEN args.kind = "company"
    ELSE Block(base, "company") # Nothing /\ Block(base, "person") = Nothing

Misplaced(base, args) ==
    DOMAIN args \cap IF IsCompany(base, args) THEN {"first_name", "salutation"}
                     ELSE {"vat_registration_id", "tax_number"}

\* A role that stays keeps its number, one left out is dropped.
RolesBody(current, roles) == [r \in roles |-> Block(current, r)]

\* The only category in use, or the default one. Each holds a list.
InUse(current) == {k \in DOMAIN current : current[k] # << >>}
Kind(current, default) ==
    IF Cardinality(InUse(current)) = 1 THEN CHOOSE k \in InUse(current) : TRUE
    ELSE default

Reachability(base, args, default) ==
    LET Replaced(arg, f) == IF Given(args, arg)
                            THEN Sole(f, Sole(Kind(Block(base, f), default), <<args[arg]>>))
                            ELSE Nothing
    IN  Replaced("email", "emailAddresses") ++ Replaced("phone", "phoneNumbers")

Identity(base, args) ==
    IF IsCompany(base, args)
    THEN Put("company", Mentioned(args, [name |-> "name", tax_number |-> "taxNumber",
                                         vat_registration_id |-> "vatRegistrationId"])
                        ++ Block(base, "company"))
    ELSE Put("person", Mentioned(args, [name |-> "lastName", first_name |-> "firstName",
                                        salutation |-> "salutation"])
                       ++ Block(base, "person"))

Addresses(base, args) ==
    Put("addresses", Mentioned(args, [billing_address |-> "billing",
                                      shipping_address |-> "shipping"])
                     ++ Block(base, "addresses"))

\* A contact that is read has roles: one with none, or null, does not come up.
RolesOf(base, args) ==
    IF Given(args, "roles") THEN [roles |-> RolesBody(Block(base, "roles"), args.roles)]
    ELSE IF "roles" \notin DOMAIN base THEN [roles |-> [customer |-> Nothing]]
    ELSE Nothing

ContactBody(base, args) ==
    RolesOf(base, args) ++ Identity(base, args)
    ++ Reachability(base, args, IF IsCompany(base, args) THEN "business" ELSE "private")
    ++ Addresses(base, args) ++ Mentioned(args, [note |-> "note"]) ++ Base(base)

------------------------------------------------------------------------------
(* Vouchers *)

VoucherPutDrop_Echoes == {"contactName", "createdDate", "updatedDate", "organizationId"}
VoucherPutDrop == {"voucherStatus", "contactName", "createdDate", "updatedDate",
                   "organizationId"}

VoucherFields == [voucher_type |-> "type", voucher_number |-> "voucherNumber",
                  voucher_date |-> "voucherDate", due_date |-> "dueDate",
                  shipping_date |-> "shippingDate", tax_type |-> "taxType",
                  remark |-> "remark"]

\* require_one_contact, require_unchecked: refused before anything is sent.
TwoContactsOrNone(args) ==
    IF Given(args, "contact_id") THEN Field(args, "use_collective_contact", FALSE)
    ELSE ~Field(args, "use_collective_contact", TRUE)
Finalizes(args) == Field(args, "finalize", FALSE)
NotUnchecked(current, args) ==
    Finalizes(args) /\ Field(current, "voucherStatus", "none") # "unchecked"

VoucherContact(args) ==
    IF Given(args, "contact_id")
    THEN [contactId |-> args.contact_id, useCollectiveContact |-> FALSE]
    ELSE Mentioned(args, [use_collective_contact |-> "useCollectiveContact"])

LeavesContact(args) ==
    ~Given(args, "contact_id") /\ Field(args, "use_collective_contact", FALSE)

SumOf(lines, f) == FoldSeq(LAMBDA line, sum : sum + line[f], 0, lines)
TaxTotal(lines) == SumOf(lines, "taxAmount")
GrossTotal(lines, taxType) ==
    SumOf(lines, "amount") + IF taxType = "gross" THEN 0 ELSE TaxTotal(lines)

\* Totals are worked out for lines this call wrote, or a tax type it changed.
Derives_Always(base, args) == TRUE
Derives(base, args) == base = Nothing \/ Given(args, "items") \/ Given(args, "tax_type")

VoucherBody(base, args) ==
    LET kept  == Without(Base(base), VoucherPutDrop
                         \cup IF LeavesContact(args) THEN {"contactId"} ELSE {})
        body  == Mentioned(args, [items |-> "voucherItems"] ++ VoucherFields)
                 ++ VoucherContact(args)
                 ++ (IF Finalizes(args) THEN [voucherStatus |-> "open"] ELSE Nothing)
                 ++ kept
        lines == Field(body, "voucherItems", << >>)
    IN  Mentioned(args, [total_tax_amount |-> "totalTaxAmount",
                         total_gross_amount |-> "totalGrossAmount"])
        ++ (IF Derives(base, args)
            THEN [totalTaxAmount |-> TaxTotal(lines),
                  totalGrossAmount |-> GrossTotal(lines, Field(body, "taxType", "none"))]
            ELSE Nothing)
        ++ body

------------------------------------------------------------------------------
(* Articles *)

ArticlePutDrop == {"id", "organizationId", "createdDate", "updatedDate"}
PriceKeys == {"leadingPrice", "netPrice", "grossPrice", "taxRate"}

Leading(side) == IF side = "NET" THEN "netPrice" ELSE "grossPrice"

\* Only the leading side goes back: the API works out the other one.
PriceBody(current, args) ==
    LET side == Field(args, "leading_price", Field(current, "leadingPrice", "NET"))
        kept == IF Given(args, "price") THEN Sole(Leading(side), args.price)
                ELSE Mentioned(current, Sole(Leading(side), Leading(side)))
    IN  IF DOMAIN args \cap {"price", "leading_price", "tax_rate"} = {} THEN current
        ELSE Mentioned(args, [tax_rate |-> "taxRate"]) ++ [leadingPrice |-> side] ++ kept
             ++ Without(current, {"netPrice", "grossPrice"})

\* And of any price only what PriceKeys names, whether the call changes it or not.
PriceSent(price) ==
    IF price = Nothing THEN Nothing ELSE Sole("price", Without(price, DOMAIN price \ PriceKeys))

ArticleBody(base, args) ==
    PriceSent(PriceBody(Block(base, "price"), args))
    ++ Mentioned(args, [title |-> "title", article_type |-> "type", unit_name |-> "unitName",
                        article_number |-> "articleNumber", gtin |-> "gtin",
                        description |-> "description", note |-> "note"])
    ++ Without(Base(base), ArticlePutDrop)

------------------------------------------------------------------------------
(* Sales documents: written once, so there is no base. *)

ShippingRequired == {"invoice", "order-confirmation", "delivery-note"}

\* require_type_fields
LacksTypeField(args) ==
    \/ args.document_type \in ShippingRequired /\ ~Given(args, "shipping_date")
    \/ args.document_type = "quotation" /\ ~Given(args, "expiration_date")
    \/ args.document_type = "dunning" /\ ~Given(args, "preceding_sales_voucher_id")

PricedFields == {"quantity", "unit_name", "unit_price", "tax_rate_percent"}

LineRefused(item) ==
    \/ Given(item, "article_id") /\ item.item_type \notin {"material", "service"}
    \/ item.item_type # "text" /\ ~(PricedFields \subseteq DOMAIN item)

LineBody(item, taxType) ==
    IF item.item_type = "text"
    THEN Mentioned(item, [item_type |-> "type", name |-> "name",
                          description |-> "description"])
    ELSE Mentioned(item, [item_type |-> "type", name |-> "name", quantity |-> "quantity",
                          unit_name |-> "unitName", article_id |-> "id",
                          description |-> "description",
                          discount_percentage |-> "discountPercentage"])
         ++ [unitPrice |->
             Mentioned(item, [tax_rate_percent |-> "taxRatePercentage",
                              unit_price |-> IF taxType = "gross" THEN "grossAmount"
                                             ELSE "netAmount"])]

\* A date is an object: its day, and a time of day if the caller gave one.
AtMidnight(date) == date ++ [time |-> "T00:00:00.000Z"]

Dates(args) == [a \in DOMAIN args \cap {"voucher_date", "expiration_date", "shipping_date"} |->
                  AtMidnight(args[a])]

SalesDocumentBody(args) ==
    Mentioned(Dates(args), [voucher_date |-> "voucherDate",
                            expiration_date |-> "expirationDate",
                            shipping_date |-> "shippingConditions"])
    ++ [address |-> [contactId |-> args.contact_id],
        taxConditions |-> [taxType |-> args.tax_type],
        lineItems |-> [i \in DOMAIN args.items |-> LineBody(args.items[i], args.tax_type)]]
    ++ Mentioned(args, [title |-> "title", introduction |-> "introduction",
                        remark |-> "remark"])
==============================================================================
