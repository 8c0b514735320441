------------------------------- MODULE Stories -------------------------------
(***************************************************************************)
(* The storyboards the distribution ships, line by line: common.story with *)
(* site.story, read through a group's story file, and preauth.story; and   *)
(* the lists its configuration files define.                               *)
(***************************************************************************)
EXTENDS Sequences

Include(f) == [com |-> "include", name |-> f]
End == [com |-> "end", name |-> ""]
Function(n) == [com |-> "function", name |-> n]
Command(isif, s, l, m, r, a) ==
  [com |-> IF isif THEN "if" ELSE "ifnot", name |-> a, state |-> s, list |-> l, mess_no |-> m,
   ret |-> r]
If(s, r, a) == Command(TRUE, s, "", 0, r, a)
IfIn(s, l, r, a) == Command(TRUE, s, l, 0, r, a)
IfNot(s, r, a) == Command(FALSE, s, "", 0, r, a)
IfNotIn(s, l, r, a) == Command(FALSE, s, l, 0, r, a)
IfNotMess(s, m, r, a) == Command(FALSE, s, "", m, r, a)

(* A mutant: banned sites before exceptions.                                *)
BannedFirst ==
  <<Function("checkrequest"), If("true", "returnif", "hook_checkrequest"),
       If("viruscheckset", "", "checknoscanlists"),
       If("bypassallowset", "", "checknobypasslists"), If("exceptionset", "return", "true"),
       If("true", "", "is_search_term"), IfNot("greyset", "returnif", "localcheckrequest"),
       If("connect", "return", "sslrequestcheck"),
       IfNot("greyset", "returnif", "bannedcheck"), IfNot("greyset", "", "greycheck"),
       IfNot("greyset", "returnif", "exceptioncheck"),
       IfIn("fullurlin", "change", "", "setmodurl"), If("true", "returnif", "embeddedcheck"),
       IfIn("headerin", "headermods", "", "setmodheader"),
       IfIn("fullurlin", "addheader", "", "setaddheader"),
       IfIn("searchin", "override", "", "setexception"), If("returnset", "return", "setdone"),
       IfIn("searchin", "banned", "return", "setblock"),
       IfIn("fullurlin", "redirect", "return", "setredirect"), If("true", "", "setgrey")>>

CheckRequest ==
  <<Function("checkrequest"), If("true", "returnif", "hook_checkrequest"),
       If("viruscheckset", "", "checknoscanlists"),
       If("bypassallowset", "", "checknobypasslists"), If("exceptionset", "return", "true"),
       If("true", "", "is_search_term"), IfNot("greyset", "returnif", "localcheckrequest"),
       If("connect", "return", "sslrequestcheck"),
       IfNot("greyset", "returnif", "exceptioncheck"), IfNot("greyset", "", "greycheck"),
       IfNot("greyset", "returnif", "bannedcheck"),
       IfIn("fullurlin", "change", "", "setmodurl"), If("true", "returnif", "embeddedcheck"),
       IfIn("headerin", "headermods", "", "setmodheader"),
       IfIn("fullurlin", "addheader", "", "setaddheader"),
       IfIn("searchin", "override", "", "setexception"), If("returnset", "return", "setdone"),
       IfIn("searchin", "banned", "return", "setblock"),
       IfIn("fullurlin", "redirect", "return", "setredirect"), If("true", "", "setgrey")>>

CommonStory ==
  CheckRequest
  \o <<Function("checkresponse"), If("true", "returnif", "hook_checkresponse"),
       If("exceptionset", "return", "false"),
       IfIn("responseheaderin", "reponseheadermods", "", "setmodheader"),
       If("viruscheckset", "", "checknoscantypes"),
       IfIn("urlin", "exceptionfile", "return", "false"), If("true", "return", "checkfiletype")>>
  \o <<Function("thttps-checkrequest"), If("true", "returnif", "hook_thttps-checkrequest"),
       If("true", "", "thttps_automitm"), If("true", "returnif", "checktimesblocked"),
       If("true", "returnif", "localsslrequestcheck"),
       If("true", "returnif", "sslrequestcheck"), IfNot("hassniset", "", "checksni")>>
  \o <<Function("icap-checkrequest"), If("true", "returnif", "hook_icap-checkrequest"),
       If("connect", "return", "icapsslrequestcheck"),
       IfNot("greyset", "", "icap-checkrequest2"), If("redirectset", "return", "true"),
       IfNot("blockset", "", "setnolog")>>
  \o <<Function("icap-checkrequest2"), If("viruscheckset", "", "checknoscanlists"),
       If("bypassallowset", "", "checknobypasslists"), If("exceptionset", "return", "true"),
       If("true", "", "is_search_term"), IfNot("greyset", "returnif", "localcheckrequest"),
       IfNot("greyset", "returnif", "exceptioncheck"), IfNot("greyset", "", "greycheck"),
       IfNot("greyset", "returnif", "bannedcheck"),
       IfIn("fullurlin", "change", "", "setmodurl"), If("true", "returnif", "embeddedcheck"),
       IfIn("headerin", "headermods", "", "setmodheader"),
       IfIn("fullurlin", "addheader", "", "setaddheader"),
       IfIn("searchin", "override", "return", "setgrey"),
       IfIn("searchin", "banned", "return", "setblock"), If("true", "", "setgrey")>>
  \o <<Function("icap-checkresponse"), If("true", "returnif", "hook_icap-checkresponse"),
       If("viruscheckset", "", "checknoscanlists"), If("true", "return", "checkresponse")>>
  \o <<Function("embeddedcheck"), IfIn("embeddedin", "localexception", "return", "false"),
       IfIn("embeddedin", "localgrey", "return", "false"),
       IfIn("embeddedin", "localbanned", "return", "setblock"),
       IfIn("embeddedin", "exception", "return", "false"),
       IfIn("embeddedin", "grey", "return", "false"),
       IfIn("embeddedin", "banned", "return", "setblock")>>
  \o <<Function("localcheckrequest"), If("true", "returnif", "hook_localcheckrequest"),
       If("connect", "return", "localsslrequestcheck"), If("true", "", "checktimesblocked"),
       If("returnset", "return", "setblock"),
       IfNot("greyset", "returnif", "localexceptioncheck"),
       IfNot("greyset", "returnif", "localgreycheck"),
       IfNot("greyset", "returnif", "localbannedcheck"),
       IfIn("searchin", "localbanned", "return", "setblock")>>
  \o <<Function("localsslrequestcheck"), If("true", "returnif", "hook_localsslrequestcheck"),
       If("true", "returnif", "sslchecktimesblocked"),
       IfIn("sitein", "localexception", "return", "setexception"),
       IfIn("sitein", "localgreyssl", "returnif", "sslcheckmitm"),
       IfIn("sitein", "localgrey", "returnif", "sslcheckmitm"),
       IfIn("sitein", "localbannedssl", "return", "setblock"),
       IfIn("sitein", "localbanned", "", "true"), IfNot("returnset", "return", "false"),
       If("true", "returnif", "sslcheckmitm"), If("true", "return", "setblock")>>
  \o <<Function("sslreplace"), IfIn("fullurlin", "sslreplace", "return", "setconnectsite"),
       If("true", "return", "false")>>
  \o <<Function("sslchecktimesblocked"), If("true", "", "checktimesblocked"),
       IfNot("returnset", "return", "false"), If("true", "returnif", "sslcheckmitm"),
       If("true", "return", "setblock")>>
  \o <<Function("localgreycheck"), IfIn("urlin", "localgrey", "return", "setgrey")>>
  \o <<Function("localbannedcheck"), IfIn("urlin", "localbanned", "return", "setblock")>>
  \o <<Function("localexceptioncheck"),
       IfIn("urlin", "localexception", "return", "setexception")>>
  \o <<Function("exceptioncheck"), IfIn("urlin", "exception", "return", "setexception"),
       IfIn("refererin", "refererexception", "return", "setexception"),
       IfIn("headerin", "exceptionheader", "return", "setexception"),
       IfIn("useragentin", "exceptionuseragent", "return", "setexception"),
       IfNotIn("urlin", "embededreferer", "return", "false"),
       IfIn("embeddedin", "refererexception", "return", "setexception")>>
  \o <<Function("sslexceptioncheck"), IfIn("sitein", "exception", "return", "setexception"),
       IfIn("headerin", "exceptionheader", "return", "setexception"),
       IfIn("useragentin", "exceptionuseragent", "return", "setexception"),
       If("true", "return", "false")>>
  \o <<Function("greycheck"), IfIn("urlin", "grey", "return", "setgrey")>>
  \o <<Function("bannedcheck"), If("true", "returnif", "checkblanketblock"),
       IfIn("urlin", "banned", "return", "setblock"),
       IfNotIn("urlin", "exceptionfile", "returnif", "checkurlextension"),
       IfIn("useragentin", "banneduseragent", "return", "setblock"),
       IfIn("headerin", "bannedheader", "return", "setblock")>>
  \o <<Function("checkurlextension"), IfIn("urlin", "bannedextension", "return", "setblock")>>
  \o <<Function("localsslcheckrequest"), If("true", "returnif", "hook_localsslcheckrequest"),
       IfIn("sitein", "localexception", "return", "setexception")>>
  \o <<Function("sslcheckmitm"), If("true", "return", "sslcheckmitmgeneral")>>
  \o <<Function("sslcheckmitmgeneral"), If("true", "", "setgomitm"),
       IfNot("returnset", "return", "false"),
       IfIn("sitein", "nocheckcert", "", "setnocheckcert"), If("true", "", "sslreplace"),
       If("true", "return", "true")>>
  \o <<Function("sslcheckmitmgreyonly"), IfIn("sitein", "greyssl", "", "setgomitm"),
       IfNot("returnset", "return", "false"),
       IfIn("sitein", "nocheckcert", "", "setnocheckcert"), If("true", "", "sslreplace"),
       If("true", "return", "true")>>
  \o <<Function("sslrequestcheck"), If("true", "returnif", "hook_sslrequestcheck"),
       If("true", "returnif", "sslexceptioncheck"), If("true", "returnif", "sslcheckmitm"),
       IfIn("sitein", "banned", "return", "setblock"),
       IfIn("sitein", "bannedssl", "return", "setblock"), If("true", "", "sslreplace"),
       IfNot("returnset", "returnif", "sslcheckblanketblock"), If("true", "", "setgrey")>>
  \o <<Function("checknoscanlists"), IfIn("urlin", "exceptionvirus", "", "unsetviruscheck")>>
  \o <<Function("checknoscantypes"),
       IfIn("mimein", "exceptionvirus", "return", "unsetviruscheck"),
       IfIn("extensionin", "exceptionvirus", "return", "unsetviruscheck")>>
  \o <<Function("checknobypasslists"),
       IfIn("urlin", "bannedbypass", "return", "unsetbypassallow")>>
  \o <<Function("icapsslrequestcheck"), If("true", "returnif", "hook_icapsslrequestcheck"),
       If("true", "returnif", "icapsquidbump"), If("true", "returnif", "sslexceptioncheck"),
       IfIn("sitein", "banned", "return", "setblock")>>
  \o <<Function("checkblanketblock")>>
  \o <<Function("sslcheckblanketblock")>>
  \o <<Function("icapsquidbump")>>
  \o <<Function("checkfiletype"), IfIn("extensionin", "exceptionextension", "return", "false"),
       IfIn("mimein", "exceptionmime", "return", "false"),
       IfIn("mimein", "bannedmime", "return", "setblock"),
       IfIn("extensionin", "bannedextension", "return", "setblock")>>
  \o <<Function("checksni"), IfNotMess("tls", 511, "return", "setblock"),
       IfNotMess("hassniset", 512, "return", "setblock")>>
  \o <<Function("thttps_automitm"), If("true", "", "setautomitm")>>
  \o <<Function("checktimesblocked")>>
  \o <<Function("checklogging"), IfIn("urlin", "nolog", "", "setnolog"),
       If("returnset", "return", "false"), If("true", "return", "true")>>
  \o <<Function("is_search_term"), IfIn("urlin", "searchtermexceptions", "return", "false"),
       IfIn("fullurlin", "searchterms", "", "setsearchterm"), If("returnset", "return", "true")>>
  \o <<Function("hook_checkrequest")>>
  \o <<Function("hook_checkresponse")>>
  \o <<Function("hook_thttps-checkrequest")>>
  \o <<Function("hook_icap-checkrequest")>>
  \o <<Function("hook_icap-checkresponse")>>
  \o <<Function("hook_localcheckrequest")>>
  \o <<Function("hook_localsslrequestcheck")>>
  \o <<Function("hook_localsslcheckrequest")>>
  \o <<Function("hook_sslrequestcheck")>>
  \o <<Function("hook_icapsslrequestcheck")>>

SiteStory ==
  <<Function("checknoscanlists")>>
  \o <<Function("checknoscantypes")>>

PreAuthStory ==
  <<Function("pre-authcheck"), IfIn("clientin", "bannedclient", "return", "setblock"),
       IfIn("clientin", "exceptionclient", "return", "setexception"),
       IfIn("urlin", "authexception", "", "setexception"), If("returnset", "", "setgodirect"),
       IfNot("connect", "return", "true"), IfIn("sitein", "nomitm", "return", "setnomitm"),
       IfNotIn("useragentin", "browser", "", "unsetautomitm")>>
  \o <<Function("thttps-pre-authcheck"), IfIn("sitein", "nomitm", "", "setnomitm"),
       IfIn("clientin", "bannedclient", "return", "setblock"),
       IfIn("clientin", "exceptionclient", "return", "setexception"),
       IfIn("urlin", "authexception", "return", "setexception")>>
  \o <<Function("icap-pre-authcheck")>>
  \o <<Function("auth_pf_basic"), IfIn("userin", "defaultusermap", "return", "setgroup")>>
  \o <<Function("auth_proxy_basic"), IfIn("userin", "defaultusermap", "return", "setgroup")>>
  \o <<Function("auth_proxy_header"), IfIn("userin", "defaultusermap", "return", "setgroup")>>
  \o <<Function("auth_proxy_ident"), IfIn("userin", "defaultusermap", "return", "setgroup")>>
  \o <<Function("auth_ident"), IfIn("userin", "defaultusermap", "return", "setgroup")>>
  \o <<Function("auth_proxy_ntlm"), IfIn("userin", "defaultusermap", "return", "setgroup")>>
  \o <<Function("auth_proxy_digest"), IfIn("userin", "defaultusermap", "return", "setgroup")>>
  \o <<Function("auth_ip"), IfIn("clientin", "ipmap", "return", "setgroup")>>
  \o <<Function("auth_port"), IfIn("listenportin", "portmap", "return", "setgroup")>>
  \o <<Function("auth_icap"), IfIn("userin", "defaultusermap", "return", "setgroup")>>

(* A group's story file includes the library and the site's changes to it.   *)
StoryText ==
  [group |-> <<Include("common"), Include("site")>>, common |-> CommonStory, site |-> SiteStory,
   preauth |-> PreAuthStory]

(* The lists the configuration files name, those commented out included.    *)
ListNames ==
  {"", "addheader", "authexception", "banned", "bannedbypass", "bannedclient",
   "bannedextension", "bannedheader", "bannedmime", "bannedssl", "banneduseragent",
   "browser", "change", "defaultusermap", "embededreferer", "exception", "exceptionclient",
   "exceptionextension", "exceptionfile", "exceptionheader", "exceptionmime",
   "exceptionuseragent", "exceptionvirus", "grey", "greyssl", "headermods", "ipmap",
   "localbanned", "localbannedssl", "localexception", "localgrey", "localgreyssl",
   "nocheckcert", "nolog", "nomitm", "override", "portmap", "redirect", "refererexception",
   "reponseheadermods", "searchtermexceptions", "searchterms", "sslreplace"}

DefinedTypes ==
  [l \in ListNames |->
     CASE l \in {"banned", "exception"} -> {"site", "ipsite", "url", "regexpbool", "search"}
       [] l = "localbanned" -> {"site", "ipsite", "url", "search"}
       [] l = "nolog" -> {"site", "ipsite", "url", "regexpbool", "fileext"}
       [] l = "exceptionvirus" -> {"site", "ipsite", "url", "mime", "fileext"}
       [] l \in {"authexception", "bannedbypass", "embededreferer", "exceptionfile", "grey",
                 "localexception", "localgrey", "refererexception"} -> {"site", "ipsite", "url"}
       [] l \in {"bannedssl", "greyssl", "localbannedssl", "localgreyssl", "nocheckcert",
                 "nomitm"} -> {"site", "ipsite"}
       [] l \in {"bannedheader", "banneduseragent", "browser", "exceptionheader",
                 "exceptionuseragent", "searchtermexceptions"} -> {"regexpbool"}
       [] l \in {"addheader", "change", "headermods", "redirect", "reponseheadermods",
                 "searchterms", "sslreplace"} -> {"regexprep"}
       [] l \in {"bannedclient", "exceptionclient"} -> {"ip", "site"}
       [] l \in {"bannedextension", "exceptionextension"} -> {"fileext"}
       [] l \in {"bannedmime", "exceptionmime"} -> {"mime"}
       [] l \in {"defaultusermap", "portmap"} -> {"map"}
       [] l = "ipmap" -> {"ipmap"}
       [] l = "override" -> {"search"}
       [] l = "" -> {}]

(* Their message numbers, as far as the storyboard tells them apart.        *)
ListMessage ==
  [l \in ListNames |-> CASE l = "bannedclient" -> 100 [] l = "exceptionclient" -> 600
                         [] OTHER -> 500]

=============================================================================
