------------------------- MODULE MCDescriptorIndex -------------------------
(* A small instance of DescriptorIndex: two files in a package and one in a *)
(* package within it, with messages that move, nest, hide each other and    *)
(* disappear, in the encodings that a compiler may choose and in some that  *)
(* are none.  A name is one letter.                                         *)
EXTENDS DescriptorIndex, TLC

A == <<97>>
B == <<98>>
User == <<85>>
Id == <<73>>
Reply == <<82>>
Users == <<83>>
Get == <<71>>
Watch == <<87>>

\* ------------------------------------------------------------------------
\* The encoder.

Digits(n) == IF n < 128 THEN <<n>> ELSE <<128 + (n % 128), n \div 128>>

\* A number in more bytes than it takes.
Long(n) == <<128 + n, 128, 128, 128, 128, 0>>

Tagged(number, wire) == Digits(8 * number + wire)
Chunk(number, data) == Tagged(number, 2) \o Digits(Len(data)) \o data
LongChunk(number, data) == Tagged(number, 2) \o Long(Len(data)) \o data
Bool(number) == Tagged(number, 0) \o <<1>>
Deprecation == Bool(33)

\* Fields that no reader knows, of every wire type, one with 32 bits.
Unknown ==
  Tagged(12, 2) \o <<2, 10, 10>> \o Tagged(5, 0) \o <<255, 255, 255, 255, 15>>
  \o Tagged(99, 1) \o [i \in 1..8 |-> 255] \o Tagged(7, 5) \o <<1, 2, 3, 4>>

Dotted(path) ==
  FoldLeft(LAMBDA text, p : IF text = <<>> THEN p ELSE text \o <<Dot>> \o p,
           <<>>, path)

\* ------------------------------------------------------------------------
\* Files and what they are sent as.

Relative(p) == [absolute |-> FALSE, path |-> p]
Absolute(p) == [absolute |-> TRUE, path |-> p]

ReplyText == Chunk(3, Reply)

MethodOf(name, input, streaming, deprecated) ==
  [name |-> name, input |-> input, output |-> Relative(<<Reply>>),
   streaming |-> streaming, deprecated |-> deprecated]

ServiceOf(methods, deprecated) ==
  [methods |-> methods, deprecated |-> deprecated]

File(package, messages, defined) ==
  [package |-> package, messages |-> messages, services |-> defined]

NoServices == [s \in {} |-> None]

Old == ServiceOf(<<MethodOf(Get, Relative(<<User, Id>>), FALSE, FALSE)>>,
                 TRUE)
OldBytes ==
  Chunk(3, Unknown \o Deprecation)
  \o Chunk(2, Chunk(4, Bool(1)) \o ReplyText \o Chunk(1, Get)
              \o Chunk(2, Dotted(<<User, Id>>)))
  \o Chunk(1, A) \o Unknown \o Chunk(1, Users)

New == ServiceOf(<<MethodOf(Get, Absolute(<<A, User>>), FALSE, FALSE),
                   MethodOf(Watch, Relative(<<User>>), TRUE, FALSE)>>, FALSE)
NewBytes ==
  Chunk(1, Users) \o Chunk(3, Deprecation \o Tagged(33, 0) \o <<0>>)
  \o Chunk(2, Chunk(1, Get) \o Chunk(2, <<Dot>> \o Dotted(<<A, User>>))
              \o ReplyText \o Tagged(5, 0) \o <<0>>)
  \o Chunk(2, Chunk(1, Watch) \o Chunk(2, User) \o ReplyText \o Bool(6))

Inner ==
  ServiceOf(<<MethodOf(Get, Relative(<<User>>), FALSE, TRUE)>>, FALSE)
InnerBytes ==
  LongChunk(1, Users)
  \o Chunk(2, Bool(5) \o Tagged(5, 0) \o <<128, 0>> \o Chunk(1, Get)
              \o Chunk(2, User) \o ReplyText
              \o Chunk(4, Tagged(33, 0) \o <<128, 128, 128, 128, 8>>))

UserId == Chunk(4, Chunk(3, Unknown \o Chunk(1, Id)) \o Chunk(1, User))
JustUser == Chunk(4, Chunk(1, User))
JustReply == LongChunk(4, Unknown \o Chunk(1, Reply))
Package(p) == Chunk(2, Dotted(p))

UsersFile == <<1>>
ReplyFile == <<2>>
InnerFile == <<3>>

\* Some files do not say their name; some say another than they are sent as.
Entry(own, bytes, file) ==
  [name |-> own, own |-> own, bytes |-> bytes, file |-> file]
Renamed(own, bytes, file) ==
  [name |-> <<9>>, own |-> own, bytes |-> Chunk(1, own) \o bytes,
   file |-> file]

MCEntries ==
  {Entry(UsersFile, Package(<<A>>) \o UserId,
         File(<<A>>, {<<User>>, <<User, Id>>}, NoServices)),
   Renamed(UsersFile, JustUser \o Chunk(6, OldBytes) \o Package(<<A>>),
           File(<<A>>, {<<User>>}, <<Users>> :> Old)),
   Entry(ReplyFile, JustReply \o Package(<<A>>),
         File(<<A>>, {<<Reply>>}, NoServices)),
   Entry(ReplyFile, Package(<<A>>) \o JustReply \o Chunk(6, OldBytes),
         File(<<A>>, {<<Reply>>}, <<Users>> :> Old)),
   Entry(ReplyFile, Package(<<A>>) \o Chunk(6, OldBytes)
                    \o Chunk(6, NewBytes) \o JustReply,
         File(<<A>>, {<<Reply>>}, <<Users>> :> New)),
   Renamed(ReplyFile, Unknown \o JustReply,
           File(<<>>, {<<Reply>>}, NoServices)),
   Entry(InnerFile, Package(<<A, B>>) \o Chunk(6, InnerBytes),
         File(<<A, B>>, {}, <<Users>> :> Inner)),
   Renamed(InnerFile, Package(<<A, B>>) \o JustUser \o JustReply
                      \o Chunk(6, InnerBytes),
           File(<<A, B>>, {<<User>>, <<Reply>>}, <<Users>> :> Inner)),
   Entry(InnerFile, Package(<<B>>) \o JustUser \o Package(<<A>>),
         File(<<A>>, {<<User>>}, NoServices))}
  \cup
  {Entry(UsersFile, bytes, None) : bytes \in
     {Package(<<A>>) \o <<128>>,
      JustUser \o Tagged(4, 2) \o <<5, 10>>,
      JustUser \o Tagged(7, 3) \o Tagged(7, 4),
      JustUser \o Tagged(4, 0) \o <<1>>,
      JustUser \o Tagged(7, 1) \o <<1>>,
      JustUser \o Tagged(7, 0) \o <<128, 128, 128, 128, 128, 1>>,
      JustUser \o Chunk(4, Chunk(3, <<>>) \o Chunk(1, User)),
      JustUser \o Chunk(6, Chunk(1, Users) \o
                           Chunk(3, Tagged(33, 2) \o <<0>>)),
      JustUser \o Chunk(6, Chunk(1, Users) \o
                           Chunk(2, Chunk(1, Get) \o ReplyText))}}

MCRequests ==
  {[service |-> s, method |-> m, metadata |-> w] :
     s \in {<<A, Users>>, <<A, B, Users>>}, m \in {Get, Watch},
     w \in {{}, {"-bin"}, {"reserved", "-bin"}}}
=============================================================================
