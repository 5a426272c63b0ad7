--------------------------- MODULE MCDocumentStore ---------------------------
(***************************************************************************)
(* Inputs for model-checking DocumentStore: names that the sanitizers      *)
(* treat differently, and configurations with and without prefix, storage  *)
(* and another region.                                                     *)
(***************************************************************************)
EXTENDS DocumentStore

MCCharacter == Sign \cup {"a", "A", "b", "e", "p", "x", "id", "tenants", "parties",
                          "document", "bin", "t1", "t2", "p1", "p2", "u1", "u2"}

MCConfig ==
    LET main == [bucket |-> <<"b">>, region |-> <<"space", "A">>, keyPrefix |-> << >>]
    IN  {main,
         [main EXCEPT !.keyPrefix = <<"space", "/", "p", "/", "space">>, !.region = <<"a">>],
         [main EXCEPT !.region = <<"e">>],
         [main EXCEPT !.bucket = <<"space">>]}

Plain == [tenant |-> "t1", tenantName |-> <<"A">>, party |-> "p1", partyName |-> <<"e">>,
          docType |-> <<"id">>, fileName |-> <<"x">>, contentType |-> <<"pdf">>,
          data |-> <<"d1">>]

\* File names, by what is left of them: a name, no name, a name that ends in
\* a blank after the first pass, no name after the second.
FileNames == {<<"x">>, << >>, <<"x", "space", ".", ".">>, <<".", ".", "space", ".", ".">>,
              <<"/", "x", "/", ".", "space", "/">>, <<".", ".", ".", "/", ".", ".", ".">>}

MCDocument ==
    {[Plain EXCEPT !.fileName = name] : name \in FileNames}
    \cup {[Plain EXCEPT !.data = <<"d2">>, !.contentType = <<"space">>],
          \* another tenant and party of the same slugs, and one whose name has none
          [Plain EXCEPT !.tenant = "t2", !.tenantName = <<"*", "a", "/", "space">>,
                        !.party = "p2"],
          [Plain EXCEPT !.tenant = "t2", !.tenantName = <<".", "-">>, !.partyName = << >>,
                        !.docType = <<"a", ".", "space", "a">>],
          [Plain EXCEPT !.data = << >>]}
=============================================================================
