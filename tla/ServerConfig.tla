----------------------------- MODULE ServerConfig -----------------------------
(***************************************************************************)
(* The configuration records of conf/ and how each is read from JSON: the  *)
(* constructors go through the fields in their order, refuse the ones they *)
(* do not know or whose values do not fit, and overwrite or, for lists,    *)
(* append.  A JSON value is a record with its type; a record that was      *)
(* refused is Refused.  Texts are abstract: "" is the empty one.           *)
(***************************************************************************)
EXTENDS Integers, Sequences, SequencesExt

CONSTANTS
    UInt16Max,  \* 65535
    UInt32Max   \* 4294967295, cut to what TLC can count

ASSUME WidthAssumption ==
    UInt16Max \in Nat /\ UInt32Max \in Nat /\ 0 < UInt16Max /\ UInt16Max < UInt32Max

Refused == [refused |-> TRUE]

-----------------------------------------------------------------------------
(* The JSON library: as_object, as_string answer an empty one for a value  *)
(* of another type; the as_..._or_throw accessors throw.                   *)
Fields(v) == IF v.type = "object" THEN v.fields ELSE <<>>
AsString(v) == IF v.type = "string" THEN v.text ELSE ""
IsText(v) == v.type = "string" /\ v.text # ""
IsBool(v) == v.type = "bool"
IsUInt(v, low, high) == v.type = "integer" /\ v.int \in Nat /\ v.int >= low /\ v.int <= high
IsArray(v) == v.type = "array"

Plain(v) == CASE v.type = "string" -> v.text
              [] v.type = "integer" -> v.int
              [] v.type = "bool" -> v.bool

(* One constructor: the fields in order, up to the first that is refused.  *)
Parse(json, default, Read(_, _)) ==
    LET conf[i \in 0 .. Len(Fields(json))] ==
            IF i = 0 THEN default
            ELSE LET before == conf[i - 1] IN
                 IF before = Refused THEN Refused ELSE Read(before, Fields(json)[i])
    IN  conf[Len(Fields(json))]

Overwrite(conf, fi, fits) ==
    IF fits THEN [conf EXCEPT ![fi.name] = Plain(fi.val)] ELSE Refused

Nested(conf, name, value) ==
    IF value = Refused THEN Refused ELSE [conf EXCEPT ![name] = value]

(* Mutant: a field given twice replaces the list.                          *)
AppendReplaces(conf, name, elements) ==
    IF \E i \in DOMAIN elements : elements[i] = Refused
    THEN Refused ELSE [conf EXCEPT ![name] = elements]

(* A list is appended to what the record holds already.                    *)
AppendAll(conf, name, elements) ==
    IF \E i \in DOMAIN elements : elements[i] = Refused
    THEN Refused ELSE [conf EXCEPT ![name] = @ \o elements]

Elements(v, One(_)) == [i \in DOMAIN v.elements |-> One(v.elements[i])]

-----------------------------------------------------------------------------
(* ssl_config *)
SslDefault == [keyFile |-> "", keyPassword |-> "", verifyFile |-> "",
               verifySubjectSubstr |-> ""]

ReadSsl(conf, fi) ==
    CASE fi.name \in {"keyFile", "verifyFile", "verifySubjectSubstr"} ->
            Overwrite(conf, fi, IsText(fi.val))
      [] fi.name = "keyPassword" -> [conf EXCEPT !.keyPassword = AsString(fi.val)]
      [] OTHER -> Refused

(* request_payload_config *)
PayloadDefault == [tmpDirPath |-> "", tmpFilenameLength |-> 32,
                   memoryLimitBytes |-> 1048576]

ReadPayload(conf, fi) ==
    CASE fi.name = "tmpDirPath" -> Overwrite(conf, fi, IsText(fi.val))
      [] fi.name = "tmpFilenameLength" -> Overwrite(conf, fi, IsUInt(fi.val, 0, UInt16Max))
      [] fi.name = "memoryLimitBytes" -> Overwrite(conf, fi, IsUInt(fi.val, 0, UInt32Max))
      [] OTHER -> Refused

(* mustache_config *)
MustacheDefault == [partialsDirs |-> <<>>]

ReadMustache(conf, fi) ==
    IF /\ fi.name = "partialsDirs" /\ IsArray(fi.val)
       /\ \A i \in DOMAIN fi.val.elements : IsText(fi.val.elements[i])
    THEN [conf EXCEPT !.partialsDirs = @ \o Elements(fi.val, Plain)]
    ELSE Refused

(* mime_type *)
MimeDefault == [extension |-> "", mime |-> ""]

ReadMime(conf, fi) ==
    IF fi.name \in DOMAIN MimeDefault THEN Overwrite(conf, fi, IsText(fi.val)) ELSE Refused

MimeType(json) ==
    LET mi == Parse(json, MimeDefault, ReadMime) IN
    IF mi # Refused /\ mi.extension # "" /\ mi.mime # "" THEN mi ELSE Refused

(* document_root; the types known without configuration come first.        *)
DefaultMimes == << [extension |-> "js", mime |-> "text/javascript"],
                   [extension |-> "css", mime |-> "text/css"] >>

RootDefault == [resource |-> "", dirPath |-> "", zipPath |-> "", zipInnerPrefix |-> "",
                useResourceLoader |-> FALSE, resourceLoaderPrefix |-> "",
                cacheMaxAgeSeconds |-> 604800, mimeTypes |-> DefaultMimes]

ReadRoot(conf, fi) ==
    CASE fi.name \in {"resource", "dirPath", "zipPath", "zipInnerPrefix",
                      "resourceLoaderPrefix"} -> Overwrite(conf, fi, IsText(fi.val))
      [] fi.name = "useResourceLoader" -> Overwrite(conf, fi, IsBool(fi.val))
      [] fi.name = "cacheMaxAgeSeconds" -> Overwrite(conf, fi, IsUInt(fi.val, 0, UInt32Max))
      [] fi.name = "mimeTypes" /\ IsArray(fi.val) ->
            AppendAll(conf, fi.name, Elements(fi.val, MimeType))
      [] OTHER -> Refused

(* What can be refused only when every field was read.                     *)
DocumentRoot(json) ==
    LET dr == Parse(json, RootDefault, ReadRoot) IN
    IF /\ dr # Refused
       /\ dr.resource # ""
       /\ dr.dirPath # "" \/ dr.zipPath # "" \/ dr.useResourceLoader
    THEN dr ELSE Refused

(* server_config *)
ServerDefault == [numberOfThreads |-> 2, tcpPort |-> 8080, ipAddress |-> "0.0.0.0",
                  readTimeoutMillis |-> 10000, ssl |-> SslDefault,
                  documentRoots |-> <<>>, requestPayload |-> PayloadDefault,
                  mustache |-> MustacheDefault, rootRedirectLocation |-> ""]

ReadServer(conf, fi) ==
    CASE fi.name = "numberOfThreads" -> Overwrite(conf, fi, IsUInt(fi.val, 1, UInt16Max))
      [] fi.name = "tcpPort" -> Overwrite(conf, fi, IsUInt(fi.val, 0, UInt16Max))
      [] fi.name = "readTimeoutMillis" -> Overwrite(conf, fi, IsUInt(fi.val, 1, UInt32Max))
      [] fi.name \in {"ipAddress", "rootRedirectLocation"} ->
            Overwrite(conf, fi, IsText(fi.val))
      [] fi.name = "ssl" -> Nested(conf, fi.name, Parse(fi.val, SslDefault, ReadSsl))
      [] fi.name = "requestPayload" ->
            Nested(conf, fi.name, Parse(fi.val, PayloadDefault, ReadPayload))
      [] fi.name = "mustache" ->
            Nested(conf, fi.name, Parse(fi.val, MustacheDefault, ReadMustache))
      [] fi.name = "documentRoots" /\ IsArray(fi.val) ->
            AppendAll(conf, fi.name, Elements(fi.val, DocumentRoot))
      [] OTHER -> Refused

ServerConf(json) == Parse(json, ServerDefault, ReadServer)
=============================================================================
