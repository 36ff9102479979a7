---------------------------- MODULE MCGraphQLUser ----------------------------
(***************************************************************************)
(* Small instance of GraphQLUser: { name { name } }, the same with         *)
(* arguments and a comment, and { name : name }, which has an alias.       *)
(***************************************************************************)
EXTENDS GraphQLUser

MCText ==
  {<<"{", "name", "{", "name", "}", "}">>,
   <<"keyword", "(", "symbol", "name", "(", ")", ")", "{", "name", "}">>,
   <<"{", "#", "symbol", "newline", "name", "}", "}", "name">>,
   <<"blank", "newline">>,
   <<"{", "name", "symbol", "blank", "name", "}">>}

=============================================================================
