--------------------------- MODULE MCServerCreate ---------------------------
(***************************************************************************)
(* Values for TLC: configurations with one view, two views or a wrong one, *)
(* combined with up to two further fields, right and wrong, and the disks  *)
(* they meet.                                                              *)
(***************************************************************************)
EXTENDS ServerCreate

Num(n) == [type |-> "integer", int |-> n]
Str(s) == [type |-> "string", text |-> s]
Flag(b) == [type |-> "bool", bool |-> b]
Arr(s) == [type |-> "array", elements |-> s]
F(name, val) == [name |-> name, val |-> val]
Obj(fields) == [type |-> "object", fields |-> fields]

Script == [type |-> "script"]

GoodView == Obj(<< F("method", Str("GET")), F("path", Str("/a")), F("callbackScript", Script) >>)
SocketView == Obj(<< F("callbackScript", Script), F("method", Str("WSOPEN")), F("path", Str("/w")) >>)
PingView == Obj(<< F("callbackScript", Script), F("method", Str("WSPING")), F("path", Str("/p")) >>)
Scriptless == Obj(<< F("path", Str("/b")), F("method", Str("POST")) >>)
Pathless == Obj(<< F("method", Str("GET")), F("callbackScript", Script) >>)
WrongView == Obj(<< F("verb", Str("GET")) >>)

ViewLists == { Arr(<<>>), Arr(<<GoodView, SocketView>>), Arr(<<PingView, Scriptless>>), Arr(<<Scriptless, GoodView>>),
               Arr(<<GoodView, Pathless>>), Arr(<<WrongView>>), Arr(<<Num(1)>>),
               Arr(<<GoodView, GoodView, GoodView>>), Str("views") }

Css == Obj(<< F("extension", Str("css")), F("mime", Str("text/own")) >>)
Less == Obj(<< F("mime", Str("text/less")), F("extension", Str("less")) >>)
Root(fields) == Obj(<< F("resource", Str("/s")) >> \o fields)
Dir(d) == F("dirPath", Str(d))
ZipFile(z) == F("zipPath", Str(z))
Loader(b) == F("useResourceLoader", Flag(b))
Mimes(s) == F("mimeTypes", Arr(s))

RootLists == { Arr(<<>>), Arr(<< Root(<<Dir("d1")>>), Root(<<ZipFile("z1")>>), Root(<<Loader(TRUE)>>) >>),
               Arr(<< Root(<<Dir("gone")>>) >>), Arr(<< Root(<<ZipFile("d1")>>) >>),
               Arr(<< Root(<<ZipFile("z1"), Dir("gone")>>) >>),
               Arr(<< Root(<<Loader(FALSE)>>) >>), Arr(<< Obj(<<Dir("d1")>>) >>),
               Arr(<< Root(<<Dir("d1"), Mimes(<<Css>>), Mimes(<<Less, Css>>)>>) >>),
               Arr(<< Root(<<Dir("d1"), Mimes(<<Obj(<<>>)>>)>>) >>),
               Arr(<< Root(<<Dir("d1"), F("cacheMaxAgeSeconds", Num(0))>>), Num(1) >>), Num(3) }

Extra ==
    {F("documentRoots", v) : v \in RootLists} \cup
    {F("numberOfThreads", Num(n)) : n \in {0, 1, UInt16Max, UInt16Max + 1}} \cup
    {F("tcpPort", Num(n)) : n \in {0, UInt16Max + 1}} \cup
    {F("readTimeoutMillis", Num(n)) : n \in {0, UInt32Max}} \cup
    {F("ipAddress", v) : v \in {Str(""), Str("::1"), Flag(TRUE)}} \cup
    {F("rootRedirectLocation", Str("/r"))} \cup
    {F("ssl", v) : v \in {Num(1), Obj(<<F("keyPassword", Num(7)), F("keyFile", Str("k"))>>),
                          Obj(<<F("keyFile", Str(""))>>)}} \cup
    {F("requestPayload", v) : v \in {Obj(<<F("tmpFilenameLength", Num(0))>>),
                                     Obj(<<F("memoryLimitBytes", Num(9)), F("tmpDirPath", Str("t"))>>),
                                     Obj(<<F("tmpFilenameLen", Num(9))>>)}} \cup
    {F("mustache", Obj(<<F("partialsDirs", Arr(v))>>)) :
        v \in {<<Str("d1")>>, <<Str("d1"), Str("d2")>>, <<Str("d1"), Str("d1")>>,
               <<Str("gone")>>, <<Num(1)>>}} \cup
    {F("views", Arr(<<>>)), F("unknown", Num(1))}

Extras == {<<>>} \cup {<<x>> : x \in Extra} \cup
          {<<x, y>> : x \in Extra, y \in {z \in Extra : z.name \in
                {"documentRoots", "mustache", "rootRedirectLocation", "views"}}}

SomeInputs ==
    {Num(1), Obj(<<>>)} \cup
    {Obj(<<F("views", v)>> \o x) : v \in {Arr(<<GoodView, SocketView>>)}, x \in Extras} \cup
    {Obj(x \o <<F("views", v)>>) : v \in ViewLists, x \in {<<>>} \cup {<<x>> : x \in Extra}}

File(name, ext) == [name |-> name, ext |-> ext]

SomeDisks ==
    { [dirs |-> {"d1", "d2"}, files |-> {"z1"},
       listing |-> [d \in {"d1", "d2"} |->
            IF d = "d1" THEN {File("t", ".mustache"), File("u", ".txt")} ELSE second]] :
      second \in {{}, {File("t", ".mustache")},
                  {File("s", ".mustache"), File("u", ".mustache")}} }
=============================================================================
