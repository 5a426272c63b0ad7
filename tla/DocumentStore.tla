---------------------------- MODULE DocumentStore ----------------------------
(***************************************************************************)
(* The documents of a party in an S3 bucket (internal/storage): uploads    *)
(* and downloads of concurrent callers, requests to the bucket that are    *)
(* lost, late or repeated, restarts under another configuration.           *)
(*                                                                         *)
(* A text is the sequence of its characters: "space" for white space,      *)
(* ".", "/", "-" (with "_"), "*" for any other sign; whatever else is a    *)
(* letter, "A" the capital of "a"; a word that is written out or generated *)
(* (an id, "tenants") counts as one letter.  The date in a key, the        *)
(* metadata and the connection settings are left out.                      *)
(***************************************************************************)
EXTENDS Positions

CONSTANTS Character, \* what texts are made of
          Client,    \* concurrent callers
          Config,    \* configurations the service may start with
          Document,  \* what a caller may upload, for which tenant and party
          Uuid,      \* ids uuid.New may draw, a bound on the uploads
          Idle,      \* no call in progress
          Nothing    \* nothing downloaded yet

Sign == {"space", ".", "/", "-", "*"}

ASSUME CharacterAssumption ==
    Sign \cup {"a", "tenants", "parties", "document", "bin"} \cup Uuid \subseteq Character
ASSUME UuidAssumption == Uuid \cap Sign = {}
ASSUME TextAssumption ==
    /\ \A c \in Config : c.keyPrefix \in Seq(Character)
    /\ \A d \in Document :
        /\ {d.tenantName, d.partyName, d.docType, d.fileName} \subseteq Seq(Character)
        /\ {d.tenant, d.party} \subseteq Character \ Sign

VARIABLES config,  \* the configuration of the process
          sent,    \* requests to put that the bucket may still get
          objects, \* key -> what the bucket holds there
          drawn,   \* ids in use
          call,    \* Client -> its upload in progress
          given,   \* locations that uploads returned, with their documents
          got      \* Client -> its last download

vars == <<config, sent, objects, drawn, call, given, got>>

-----------------------------------------------------------------------------
(* Names and keys.                                                         *)

\* strings.Trim.
TrimOf(text, cutset) ==
    LET kept == {i \in DOMAIN text : text[i] \notin cutset}
    IN  IF kept = {} THEN << >> ELSE SubSeq(text, Min(kept), Max(kept))
TrimSpace(text) == TrimOf(text, {"space"})

\* filepath.Base.
Base(name) ==
    LET ends    == {i \in DOMAIN name : name[i] # "/"}
        slashes == {i \in DOMAIN name : name[i] = "/" /\ i < Max(ends)}
    IN  CASE name = << >> -> <<".">>
          [] name # << >> /\ ends = {} -> <<"/">>
          [] OTHER -> SubSeq(name, Max(slashes \cup {0}) + 1, Max(ends))

\* ReplaceAll(name, "..", ""): of a row of dots the last stays if their
\* number is odd.
WithoutDots(name) ==
    LET Row(i) == {k \in 1 .. i : \A l \in k .. i : name[l] = "."}
    IN  Pick(name, {i \in DOMAIN name :
            name[i] = "." => /\ Cardinality(Row(i)) % 2 = 1
                             /\ i < Len(name) => name[i + 1] # "."})

SanitizeFileName(name) ==
    LET clean == WithoutDots(Base(TrimSpace(name)))
    IN  IF clean \in {<<".">>, <<"/">>} THEN << >> ELSE clean

OrElse(text, default) == IF text = << >> THEN default ELSE text

ToLower(c) == IF c = "A" THEN "a" ELSE c

\* Letters, and a dash for what separates them, never two in a row, none at
\* either end; other signs are skipped.  The fallback is an id or a word:
\* sanitizePathToken leaves it as it is.
SlugifyName(value, fallback) ==
    LET input     == OrElse(TrimSpace(value), fallback)
        Letter(i) == input[i] \notin Sign
        Dash(i)   == /\ input[i] \in {"space", "-", "."}
                     /\ \E j \in 1 .. i - 1 :
                            Letter(j) /\ \A k \in j + 1 .. i - 1 : input[k] \in {"/", "*"}
        written   == [i \in DOMAIN input |-> IF Letter(i) THEN ToLower(input[i]) ELSE "-"]
        slug      == Pick(written, {i \in DOMAIN input : Letter(i) \/ Dash(i)})
    IN  OrElse(TrimOf(slug, {"-"}), fallback)

Prefix(c) == TrimOf(TrimSpace(c.keyPrefix), {"/"})

\* Mutant of FolderOf: the slug alone names the folder.
FolderOfSlug(name, id) == SlugifyName(name, <<id>>)
\* The folder of a tenant, or of a party.
FolderOf(name, id) == SlugifyName(name, <<id>>) \o <<"-", id>>

\* Mutant of ObjectName: the name Upload has sanitized already is taken as it
\* is.
ObjectNameOnce(unique, name, docSlug) == <<unique, "-">> \o OrElse(name, docSlug \o <<".", "bin">>)
\* Sanitized a second time, after UploadPartyDocument: what the first pass
\* leaves of "a .." ends in a blank.
ObjectName(unique, name, docSlug) ==
    <<unique, "-">> \o OrElse(SanitizeFileName(name), docSlug \o <<".", "bin">>)

\* The key up to the name of the object: path.Join of parts none of which is
\* empty or a dot.
Path(c, d) ==
    (IF Prefix(c) = << >> THEN << >> ELSE Prefix(c) \o <<"/">>)
    \o <<"tenants", "/">> \o FolderOf(d.tenantName, d.tenant)
    \o <<"/", "parties", "/">> \o FolderOf(d.partyName, d.party)
    \o <<"/">> \o SlugifyName(d.docType, <<"document">>) \o <<"/">>

\* Mutant of BuildObjectKey: nothing in the key is unique.
BuildNamedKey(c, d, name, unique) == Path(c, d) \o name
BuildObjectKey(c, d, name, unique) ==
    Path(c, d) \o ObjectName(unique, name, SlugifyName(d.docType, <<"document">>))

KeyOf(c, d, unique) ==
    BuildObjectKey(c, d, OrElse(SanitizeFileName(d.fileName), <<"document", ".", "bin">>), unique)

\* What an object holds; one without a content type gets the general one.
Content(d) ==
    [data        |-> d.data,
     contentType |-> OrElse(TrimSpace(d.contentType), <<"application/octet-stream">>)]

-----------------------------------------------------------------------------
(* The service.                                                            *)

\* main takes the uploader that reports a disabled storage otherwise.
Enabled(c) == TrimSpace(c.bucket) # << >> /\ TrimSpace(c.region) # << >>

Init ==
    /\ config \in Config
    /\ sent = {}
    /\ objects = << >>
    /\ drawn = {}
    /\ call = [c \in Client |-> Idle]
    /\ given = {}
    /\ got = [c \in Client |-> Nothing]

\* UploadPartyDocument up to the call of PutObject, which sends its request.
Upload(c, d) ==
    /\ call[c] = Idle
    /\ Enabled(config) /\ d.data # << >>
    /\ \E unique \in Uuid \ drawn :
        LET key == KeyOf(config, d, unique)
        IN  /\ drawn' = drawn \cup {unique}
            /\ call' = [call EXCEPT ![c] = [document |-> d, key |-> key]]
            /\ sent' = sent \cup {[key |-> key, content |-> Content(d)]}
    /\ UNCHANGED <<config, objects, given, got>>

\* The bucket puts the object, over whatever is there: at once, late, when
\* nobody waits any more, or again, when the client library has repeated the
\* request.
PutObject(request) ==
    /\ objects' = [k \in DOMAIN objects \cup {request.key} |->
                    IF k = request.key THEN request.content ELSE objects[k]]
    /\ UNCHANGED <<config, sent, drawn, call, given, got>>

\* PutObject returns and the caller gets the location.
Uploaded(c) ==
    /\ call[c] # Idle /\ call[c].key \in DOMAIN objects
    /\ given' = given \cup {[key |-> call[c].key, region |-> config.region,
                             document |-> call[c].document]}
    /\ call' = [call EXCEPT ![c] = Idle]
    /\ UNCHANGED <<config, sent, objects, drawn, got>>

\* PutObject returns an error, whether the object was put or not; the caller
\* may try again, under a new id.
UploadFails(c) ==
    /\ call[c] # Idle
    /\ call' = [call EXCEPT ![c] = Idle]
    /\ UNCHANGED <<config, sent, objects, drawn, given, got>>

Lower(text) == [i \in DOMAIN text |-> ToLower(text[i])]

\* A region that is stated must be that of the configuration, in any case.
RegionFits(region, c) ==
    TrimSpace(region) # << >> => Lower(TrimSpace(region)) = Lower(TrimSpace(c.region))

Error(why) == [error |-> why]

\* DownloadDocument, from the bucket as it is when GetObject reads it.
DownloadResult(region, key) ==
    CASE ~Enabled(config) -> Error("disabled")
      [] Enabled(config) /\ ~RegionFits(region, config) -> Error("mismatched region")
      [] OTHER -> IF TrimSpace(key) \in DOMAIN objects THEN objects[TrimSpace(key)]
                  ELSE Error("not found")

Download(c, location) ==
    /\ call[c] = Idle
    /\ \E result \in {DownloadResult(location.region, location.key), Error("get object")} :
        got' = [got EXCEPT ![c] = [location |-> location, result |-> result]]
    /\ UNCHANGED <<config, sent, objects, drawn, call, given>>

\* The service ends, with it the calls in progress, and starts again.
Restart ==
    /\ config' \in Config
    /\ call' = [c \in Client |-> Idle]
    /\ got' = [c \in Client |-> Nothing]
    /\ UNCHANGED <<sent, objects, drawn, given>>

Next ==
    \/ \E c \in Client :
        \/ \E d \in Document : Upload(c, d)
        \/ Uploaded(c) \/ UploadFails(c)
        \/ \E location \in given : Download(c, location)
    \/ \E request \in sent : PutObject(request)
    \/ Restart

Spec == Init /\ [][Next]_vars

-----------------------------------------------------------------------------
TypeOK ==
    /\ config \in Config
    /\ drawn \subseteq Uuid
    /\ DOMAIN objects \subseteq {request.key : request \in sent}
    /\ Cardinality(sent) = Cardinality(drawn)
    /\ \A c \in Client : call[c] # Idle => call[c].document \in Document
    /\ \A g \in given : g.document \in Document

\* A location that an upload returned leads to the document for good: as long
\* as the region is the same, a download answers content and type or fails
\* with an error that says nothing of the object, whatever the name was,
\* whichever uploads failed and with whatever prefix the service started
\* since.
DownloadsExact ==
    \A c \in Client : got[c] # Nothing =>
        LET location == got[c].location
        IN  got[c].result \in
                {Content(location.document), Error("get object")}
                \cup (IF Enabled(config) THEN {} ELSE {Error("disabled")})
                \cup (IF RegionFits(location.region, config) THEN {} ELSE {Error("mismatched region")})

\* Nothing an upload has put is ever overwritten: not by a retry, nor by a
\* second document of the same name.
NeverOverwritten ==
    [][\A k \in DOMAIN objects : k \in DOMAIN objects' /\ objects'[k] = objects[k]]_vars

\* The folders in a key, read from its end: before the name of the object the
\* type, the party, "parties", the tenant, "tenants".
SlashBefore(key, i) == Max({j \in 1 .. i - 1 : key[j] = "/"} \cup {0})
Folders(key) ==
    LET name    == SlashBefore(key, Len(key) + 1)
        docType == SlashBefore(key, name)
        party   == SlashBefore(key, docType)
        parties == SlashBefore(key, party)
        tenant  == SlashBefore(key, parties)
    IN  [root    |-> key[tenant - 1],
         tenant  |-> SubSeq(key, tenant + 1, parties - 1),
         parties |-> SubSeq(key, parties + 1, party - 1),
         party   |-> SubSeq(key, party + 1, docType - 1)]

\* Whatever tenants, parties and files are called, no name adds a level to a
\* key, and two tenants, or two parties, never share a folder.
FoldersApart ==
    \A g, h \in given :
        LET f == Folders(g.key)
            e == Folders(h.key)
        IN  /\ f.root = "tenants" /\ f.parties = <<"parties">>
            /\ f.tenant = e.tenant => g.document.tenant = h.document.tenant
            /\ f.party = e.party => g.document.party = h.document.party
=============================================================================
