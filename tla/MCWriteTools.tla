---------------------------- MODULE MCWriteTools -----------------------------
(* WriteTools over one record of each kind: two calls, one change by a       *)
(* person.  The calls that update name different fields of one record, so    *)
(* that one's change is the other's foreign one.                             *)
EXTENDS WriteTools

CONSTANTS c1, c2

MCCalls == {c1, c2}

Company == [version |-> 1, organizationId |-> "org", note |-> "n",
            roles |-> [customer |-> "number" :> 1],
            company |-> [name |-> "A", taxNumber |-> "t"],
            emailAddresses |-> [office |-> <<"a">>, other |-> << >>],
            addresses |-> "billing" :> "here"]
Person == [version |-> 1, organizationId |-> "org",
           roles |-> [vendor |-> "number" :> 2], person |-> "lastName" :> "P",
           phoneNumbers |-> [mobile |-> <<"1">>, private |-> <<"2">>]]

Line(amount) == [amount |-> amount, taxAmount |-> 2]

Receipt == [version |-> 1, organizationId |-> "org", voucherNumber |-> "R1", voucherStatus |-> "unchecked",
            taxType |-> "net", useCollectiveContact |-> TRUE,
            totalTaxAmount |-> 19, totalGrossAmount |-> 119]
Booked == [version |-> 1, organizationId |-> "org", voucherStatus |-> "open",
           taxType |-> "net", useCollectiveContact |-> FALSE, contactId |-> "k",
           voucherItems |-> <<Line(10), Line(20)>>, totalTaxAmount |-> 4,
           totalGrossAmount |-> 34]

Article(side) == [version |-> 1, organizationId |-> "org", title |-> "T", note |-> "n",
                  price |-> [leadingPrice |-> side, netPrice |-> 100, grossPrice |-> 119,
                             taxRate |-> 19, currency |-> "EUR"]]

MCFirstBooks ==
    {<<[kind |-> "contact", doc |-> d]>> : d \in {Company, Person}}
    \cup {<<[kind |-> "voucher", doc |-> d]>> : d \in {Receipt, Booked}}
    \cup {<<[kind |-> "article", doc |-> d]>> : d \in {Article("NET"), Article("GROSS")}}

MCNumbers == {"R1"}

MCEdits ==
    [contact |-> {[note |-> "x"], [emailAddresses |-> [office |-> <<"a">>, business |-> <<"b">>]]},
     voucher |-> {[remark |-> "x"], [voucherStatus |-> "open"]},
     article |-> {[title |-> "x"], [price |-> [leadingPrice |-> "NET", netPrice |-> 50,
                                              grossPrice |-> 57, taxRate |-> 7]]},
     document |-> {[remark |-> "x"]}]

Update(kind, args) == [does |-> "update", kind |-> kind, id |-> 1, args |-> args]
Create(kind, args) == [does |-> "create", kind |-> kind, id |-> 2, args |-> args]

ContactArgs == {[name |-> "B", email |-> "b", roles |-> {"customer", "vendor"}],
                [roles |-> {"vendor"}, phone |-> "3"],
                [first_name |-> "F", note |-> "m"],
                [shipping_address |-> "there", tax_number |-> "u"]}
VoucherArgs == {[items |-> <<Line(7)>>],
                [items |-> <<Line(7)>>, total_gross_amount |-> 1],
                [remark |-> "m", contact_id |-> "l"],
                [use_collective_contact |-> TRUE],
                [use_collective_contact |-> FALSE],
                [finalize |-> TRUE, confirm |-> TRUE, contact_id |-> "k"],
                [finalize |-> TRUE, confirm |-> FALSE]}
ArticleArgs == {[price |-> 80], [tax_rate |-> 7], [leading_price |-> "GROSS"],
                [title |-> "U", price |-> 70, leading_price |-> "GROSS"]}

Updates == {Update("contact", a) : a \in ContactArgs}
           \cup {Update("voucher", a) : a \in VoucherArgs}
           \cup {Update("article", a) : a \in ArticleArgs}

Custom(item) == [item_type |-> "custom", name |-> "i", quantity |-> 1, unit_name |-> "h",
                 unit_price |-> 5, tax_rate_percent |-> 19] @@ item

Creations ==
    {Create("contact", [kind |-> k, name |-> "N", roles |-> {"vendor"}, email |-> "e"])
        : k \in {"company", "person"}}
    \cup {Create("contact", [kind |-> "company", name |-> "N", roles |-> {"vendor"},
                             salutation |-> "s"])}
    \cup {Create("voucher", a @@ [tax_type |-> "net", items |-> <<Line(3), Line(4)>>])
            : a \in {"voucher_number" :> "R1", "contact_id" :> "k"}}
    \cup {Create("article", [title |-> "V", price |-> 10, leading_price |-> "GROSS",
                             tax_rate |-> 2])}
    \cup {Create("document", a @@ [contact_id |-> "k", voucher_date |-> "day" :> 1,
                                   tax_type |-> "net",
                                   items |-> <<Custom("description" :> "d")>>])
            : a \in {"document_type" :> "invoice",
                     [document_type |-> "invoice", shipping_date |-> [day |-> 1, time |-> "t"]],
                     [document_type |-> "quotation", title |-> "q"],
                     [document_type |-> "quotation", expiration_date |-> "day" :> 2],
                     [document_type |-> "dunning", finalize |-> TRUE],
                     [document_type |-> "dunning", finalize |-> TRUE, confirm |-> TRUE],
                     [document_type |-> "dunning", preceding_sales_voucher_id |-> "d",
                      finalize |-> TRUE, confirm |-> TRUE],
                     [document_type |-> "creditnote",
                      items |-> <<Custom("article_id" :> "a")>>]}}

MCAsks == (c1 :> Updates \cup Creations)
          @@ (c2 :> Updates \cup {[does |-> "delete", kind |-> "article", id |-> 1,
                                   args |-> "confirm" :> yes] : yes \in BOOLEAN})
==============================================================================
