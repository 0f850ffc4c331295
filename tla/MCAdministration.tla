-------------------------- MODULE MCAdministration --------------------------
(* The same ids stand for the requests of every component.                 *)
EXTENDS Administration, TLC
AdminSymmetry == Permutations(AuthRequests)

(* Two buyers, and one whose data is blank but passes the validation.      *)
SomeWords == {"cong ty", "acme", "an", "hue", "a@acme", "0", "84", "123", "777", "905"}
Typed(content) == [content |-> content, typed |-> "as sent"]
Company ==
  [NoProfile EXCEPT !.type = "ORGANIZATION", !.companyName = Typed(<<"cong ty", "acme">>),
     !.representativeName = Typed(<<"an">>), !.taxCode = Typed(<<"123", "0">>),
     !.address = Typed(<<"hue">>), !.invoiceEmail = Typed(<<"a@acme">>),
     !.phone = Typed(<<"84", "905">>)]
Person ==
  [Company EXCEPT !.type = "INDIVIDUAL", !.companyName = Absent, !.fullName = Typed(<<"an">>),
     !.citizenId = Typed(<<"777">>), !.taxCode = Typed(<<"777">>)]
Blanks == [Company EXCEPT !.address = Typed(<<>>), !.taxCode = Typed(<<>>), !.phone = Typed(<<>>)]
SomeBuyers == {Company, Person, Blanks}

(* Placeholders: none, one, two, two that differ in case only, two that    *)
(* the exported template does not show well.                               *)
SomeKeys == {<<>>, << <<"name">> >>, << <<"name">>, <<"code">> >>, << <<"name">>, <<"Name">> >>,
             << <<"x", Comma>> >>, << <<Blank, "x">> >>}
SomeTexts == {<<"x">>, <<Blank>>, <<Blank, "x", Comma, Quote>>, <<"x", LineEnd, "x">>}
SomeEditTexts == {<<"y">>, <<Blank>>}
SomeFurtherKeys == { <<"note">> }
=============================================================================
