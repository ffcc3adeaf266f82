---------------------------- MODULE MCSettingsPage ----------------------------
(* A person with two tabs, who saves a key in each, in one without a check,   *)
(* asks for a check of the one in use and may end the page; and somebody else *)
(* who opens it and does not know the code. One session may wait for it.      *)
EXTENDS SettingsPage, TLC

CONSTANTS tab1, tab2, other, person, stranger, watch

MCTabs == {tab1, tab2, other}
MCBrowsers == {person, stranger}
MCOf == tab1 :> person @@ tab2 :> person @@ other :> stranger
MCAsks == tab1 :> {<<"key", "none">>}
       @@ tab2 :> {<<"field", "start">>, <<"unchecked", "none">>, <<"check", "none">>, <<"end", "none">>}
       @@ other :> {<<"field", "wrong">>}
==============================================================================
