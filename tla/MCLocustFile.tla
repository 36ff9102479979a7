---------------------------- MODULE MCLocustFile ----------------------------
EXTENDS LocustFile

Document0 ==
  [kind |-> "openapi", title |-> "Pets", servers |-> <<>>, host |-> Missing,
   schemes |-> <<>>, security |-> <<>>, definitions |-> <<>>, paths |-> <<>>]

Scheme(type, in, header) == [type |-> type, in |-> in, header |-> header]
Bearer == Scheme("http", Missing, Missing)
Key == Scheme("apiKey", "header", "X-API-Key")
QueryKey == Scheme("apiKey", "query", "key")
OAuth == Scheme("oauth2", Missing, Missing)
Schemes == [bearer |-> Bearer, key |-> Key, query |-> QueryKey, oauth |-> OAuth]

Ref(name) == [ref |-> name]
Path(path, item) == [path |-> path, item |-> item]

PathParameter(name) == [name |-> name, in |-> "path"]

Operation0 == [responses |-> 200 :> <<>>]
ListPets == [operationId |-> "listPets", parameters |-> <<Ref("limit")>>, responses |-> 200 :> <<>>]
ListPetsAgain == [operationId |-> "list_pets"]
CreatePet == [operationId |-> "createPet", requestBody |-> Ref("pet"),
              responses |-> (201 :> <<>>) @@ (400 :> Ref("nowhere"))]
ShowPet == [operationId |-> "showPet", parameters |-> <<PathParameter("petId")>>]
Dangling == [parameters |-> <<Ref("nowhere")>>]
DanglingAnswer == [responses |-> 200 :> Ref("nowhere")]
TwiceReferred == [parameters |-> <<Ref("again")>>]

ShowPetById == [parameters |-> <<PathParameter("id")>>]
DeletePetByOther == [operationId |-> "deletePet", parameters |-> <<PathParameter("petId")>>]

Limited == [limit |-> [name |-> "limit", in |-> "query"],
            pet |-> [content |-> "application/json" :> TRUE],
            again |-> Ref("limit"),
            item |-> [get |-> Operation0],
            itemAgain |-> Ref("item")]

Secured(operation, names) == [security |-> names] @@ operation

PetStore(names) ==
  [Document0 EXCEPT !.servers = <<"https://petstore.example.com/v1">>, !.schemes = Schemes,
     !.security = names, !.definitions = Limited,
     !.paths = <<Path("/pets", [get |-> ListPets, post |-> CreatePet]),
                 Path("/pets/{petId}", [get |-> ShowPet])>>]

Shadowing(first, second) ==
  [Document0 EXCEPT !.schemes = Schemes, !.definitions = Limited, !.security = <<"oauth">>,
     !.paths = <<Path("/pets", [get |-> Secured(ListPets, first),
                                put |-> Secured(ListPetsAgain, second)]),
                 Path("/pets/{id}", [delete |-> Operation0]),
                 Path("/pets/id", [delete |-> Operation0, post |-> Secured(Operation0, <<>>)])>>]

(* A path and an operation id with one name, a parameter that is called    *)
(* like a function of Python, one that its path does not have.             *)
Colliding ==
  [Document0 EXCEPT !.paths =
     <<Path("/pets", [get |-> Operation0, post |-> [operationId |-> "getPets"]]),
       Path("/pets/{id}", [get |-> ShowPetById, delete |-> DeletePetByOther, put |-> Operation0]),
       Path("/pets/id", [get |-> ShowPetById])>>]

Unsound == [Document0 EXCEPT !.paths = <<Path("/pets/{}", [get |-> ShowPetById])>>]

OfPath(item) == [Document0 EXCEPT !.definitions = Limited, !.paths = <<Path("/pets", item)>>]

Legacy == [PetStore(<<"query">>) EXCEPT !.kind = "swagger", !.host = "https://pets.example.com/v2"]

MCDocument ==
  {PetStore(names) : names \in
     {<<>>, <<"key", "bearer">>, <<"bearer", "key">>, <<"oauth", "unknown">>}}
  \cup {Shadowing(<<"key">>, <<"bearer">>), Shadowing(<<>>, <<"bearer", "key">>)}
  \cup {OfPath([get |-> op]) : op \in {Dangling, DanglingAnswer, TwiceReferred, Ref("limit")}}
  \cup {OfPath(Ref("item")), OfPath(Ref("itemAgain")), OfPath(Ref("nowhere")), Legacy,
        Colliding, Unsound,
        [OfPath([get |-> Secured(ListPets, <<>>)]) EXCEPT
           !.schemes = Schemes, !.security = <<"key">>],
        [Document0 EXCEPT !.kind = "none"],
        [OfPath([get |-> ListPets]) EXCEPT !.title = "Pets v1.0"]}

OptionOf(baseUrl, pattern, dryRun) ==
  [baseUrl |-> baseUrl, pattern |-> pattern, dryRun |-> dryRun]

MCOption ==
  {OptionOf(Missing, "constant", FALSE), OptionOf(Missing, "ramp-up", FALSE),
   OptionOf("https://staging.example.com", "constant", FALSE),
   OptionOf(Missing, "constant", TRUE)}

MCSpelling ==
  [listPets |-> "list_pets", list_pets |-> "list_pets", createPet |-> "create_pet",
   showPet |-> "show_pet", getPets |-> "get_pets", deletePet |-> "delete_pet",
   id |-> "id", petId |-> "pet_id", Pets |-> "Pets"]
  @@ ("Pets v1.0" :> NotAName)

MCPlaceholders ==
  ("/pets" :> {}) @@ ("/pets/{petId}" :> {"petId"}) @@ ("/pets/{id}" :> {"id"})
  @@ ("/pets/id" :> {}) @@ ("/pets/{}" :> {NotAName})

MCPathName ==
  LET tail == ("/pets" :> "pets") @@ ("/pets/{petId}" :> "pets_petId")
                @@ ("/pets/{id}" :> "pets_id") @@ ("/pets/id" :> "pets_id")
                @@ ("/pets/{}" :> "pets")
  IN  [o \in Range(Methods) \X DOMAIN tail |-> o[1] \o "_" \o tail[o[2]]]

MCDefined == {"id", "type", "self"}
=============================================================================
