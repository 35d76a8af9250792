---------------------------- MODULE MCRedaction ----------------------------
(* A small instance of Redaction: two fields; a secret capture of up to     *)
(* three characters and references, which a response also has; references   *)
(* of every kind next to text that only looks like one.                     *)
EXTENDS Redaction

Ref(inner) == <<"{", "{">> \o inner \o <<"}", "}">>

X == Ref(<<"x">>)
Y == Ref(<<"y">>)
Guid == Ref(<<"$", "guid">>)

MCNames ==
  {"login", "response", "request", "body", "status", "headers", "token",
   "id", "tok", "pub", "proto"}

MCAtoms ==
  MCNames \cup {"{", "}", "[", "]", "(", ")", "<", ">", "'", "\"", "\\", "$", ".",
              ",", ":", " ", "*", "#", "0", "7", "200", "null", "u0061", "guid",
              "a", "b", "e", "g", "k", "p", "r", "t", "u", "x", "y", "etag"}
           \cup {ToString(k) : k \in 1..5}

MCMarker == <<"<", "r", ">">>
MCCurlMarker == <<"*", "r", "*">>
MCFallbacks == <<<<"#">>, <<"*">>>>
MCDigits == {"7", "200"}
MCWords == {"null"}
MCUnicode == "u0061" :> "a"
MCCodeUnits == <<"#", "<", ">", "a", "p", "r">>

SecretTexts ==
  {<<"a">>, <<"r">>, <<"7">>, <<"a", "\"">>, X, <<"a">> \o X \o <<"b">>, X \o Y,
   Guid \o <<"a">> \o Guid}

StoreWith(secret) ==
  [requests |-> "login" :> [json |-> TRUE, at |-> <<<<"id">>>> :> <<"7">>],
   responses |-> "login" :>
     [status |-> <<"200">>, headers |-> <<"etag">> :> <<"e">>,
      body |-> [json |-> TRUE, at |-> <<<<"token">>>> :> secret @@
                                       <<<<"}", "}">>>> :> <<"k">>]],
   captures |-> "tok" :> [value |-> secret, secret |-> TRUE] @@
                "pub" :> [value |-> Ref(<<"tok">>), secret |-> FALSE],
   hints |-> {}]

(* The capture was rejected: only its value is known to be a secret. *)
Rejected(store) ==
  [store EXCEPT !.captures["tok"].secret = FALSE,
                !.hints = {store.captures["tok"].value}]

MCStores ==
  {StoreWith(s) : s \in SecretTexts} \cup {Rejected(StoreWith(<<"a">> \o X))}

Part(text, what, of, at) ==
  [text |-> text, means |-> [what |-> what, of |-> of, at |-> at]]
Plain(text) == Part(text, "literal", "", <<>>)
Token == Part(Ref(<<"tok">>), "capture", "tok", <<>>)
Pub == Part(Ref(<<" ", "pub", " ">>), "capture", "pub", <<>>)
Login(rest) == Ref(<<"login", ".">> \o rest)
FromResponse(rest, at) ==
  Part(Login(<<"response", ".", "body", ".", "$">> \o rest), "body", "login",
       at)
DirectToken == FromResponse(<<".", "token">>, <<<<"token">>>>)
Quoted == FromResponse(<<"[", "\"", "}", "}", "\"", "]">>, <<<<"}", "}">>>>)
Id == Part(Login(<<"request", ".", "body", ".", "$", "[", "'", "id", "'",
                   "]">>), "request", "login", <<<<"id">>>>)
Status == Part(Login(<<"response", ".", "status">>), "status", "login", <<>>)
Etag == Part(Login(<<"response", ".", "headers", ".", "etag">>), "header",
             "login", <<<<"etag">>>>)
Empty == Plain(Ref(<<>>))

Urls == {<<Plain(<<"u", "'">>), Token, Plain(<<"u">>)>>,
         <<Plain(<<"u">>), Status>>}

Bodies ==
  {<<Plain(<<"p", "a">>), DirectToken, Plain(<<"p">>)>>,
   <<Plain(<<"p">> \o Y \o Guid)>>,
   <<Plain(Y \o Y \o Guid), DirectToken>>,
   <<Id, Etag, Quoted>>}

Str(text) == <<"\"">> \o text \o <<"\"">>
Member(key, value) == Str(key) \o <<":">> \o value

Json ==
  {<<Plain(<<"{">> \o Str(<<"p">>) \o <<":">>), Token,
     Plain(<<",">> \o Member(<<"a">>, Str(<<"\\", "u0061", "\\", "\"">>))
           \o <<",">> \o Member(<<"r", "p">>, <<"7", "7">>) \o <<"}">>)>>,
   <<Plain(<<"[">> \o Str(<<>>) \o <<",", "[">> \o Str(<<"p", "a">>)
           \o <<",", "null", "]", ",", "{">>
           \o Member(<<"a">>, Str(<<"p">>)) \o <<",">>
           \o Member(<<"#">>, <<"7">>) \o <<",">>
           \o Member(<<"p">>, <<"[", "]">>) \o <<",", "\"">>),
     Token, Plain(<<"\"", ":", "{", "}", "}", ",", "200", "]">>)>>}

Odd ==
  {<<Plain(<<"{", "{", "a", "}">> \o Ref(<<"tok">>)), Pub>>,
   <<Empty, Empty, Empty, Empty, Token>>,
   <<Status, Status, Id, Id, Token, Token>>,
   <<Plain(<<"{", "{", "a", "[", "'">> \o Ref(<<"tok">>))>>,
   <<Plain(Login(<<"response">>))>>,
   <<Plain(Login(<<"request", ".", "status">>))>>,
   <<Plain(Login(<<"response", ".", "body", ".", "$", ".", "proto">>))>>,
   <<Plain(Login(<<"response", ".", "body", ".", "$", ".", "id">>))>>}

MCRequests == {<<u, b>> : u \in Urls, b \in Bodies \cup Json \cup Odd}

MCEnvironments ==
  {[values |-> <<"x">> :> x @@ <<"y">> :> y, secret |-> s] :
     x \in {<<>>, <<"b">>, Y, <<"a">> \o X},
     y \in {<<"#", "\"">>, X \o Guid}, s \in {{}, {<<"y">>}}}
  \cup {[values |-> <<"x">> :> <<"b">> @@ <<"tok">> :> <<"t">>,
         secret |-> {}]}

MCBuiltins == {<<"$", "guid">>}

MCGenerations ==
  {[k \in 1..5 |-> <<"g">>], [k \in 1..5 |-> <<"g", ToString(k)>>]}
=============================================================================
