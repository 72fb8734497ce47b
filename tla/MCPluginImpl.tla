---------------------------- MODULE MCPluginImpl ----------------------------
(* Requests that differ from a proper one in one or two respects, and plugin  *)
(* configurations with one setting missing or broken.                        *)
EXTENDS PluginImpl

Proper(name) ==
    [method |-> "GET", ctype |-> "-", body |-> "document", root |-> TRUE, ns |-> "wfs",
     service |-> "WFS", name |-> name, version |-> "2.0.0", format |-> "-",
     startindex |-> "-", count |-> "-", resulttype |-> "-", property |-> "p",
     queries |-> "ok", typenames |-> << <<"ns", "T">> >>, ids |-> <<>>, language |-> "-",
     host |-> "h", forwarded |-> "-", protocol |-> "http", apikey |-> "-"]

Deviations ==
    [method : {"PUT"}] \cup [ctype : {"-", "image/png"}] \cup [body : {"empty", "invalid"}]
    \cup [root : {FALSE}] \cup [ns : {"soap", "other", "-"}] \cup [service : {"-", "WMS"}]
    \cup [version : {"-", "1.1.0", "2.0.1"}]
    \cup [format : {"gml32v-nospace", "xml32s", "debug", "pdf"}]
    \cup [startindex : {"0", "2"}] \cup [count : {"0", "1"}] \cup [resulttype : {"hits", "all"}]
    \cup [property : {"-"}] \cup [queries : {"fail", "other"}]
    \cup [typenames : {<< <<"undeclared", "T">> >>, <<>>}]
    \cup [forwarded : {"h2", "<h>", "HOST"}] \cup [host : {"-", "<h>"}]
    \cup [protocol : {"-", "ftp", "https"}] \cup [apikey : {"good", "bad"}]

Changed(r, d) == [f \in DOMAIN r |-> IF f \in DOMAIN d THEN d[f] ELSE r[f]]

Forms ==
    {[method |-> "GET", ctype |-> "-"], [method |-> "POST", ctype |-> "urlencoded"],
     [method |-> "POST", ctype |-> "text/xml"]}

Names ==
    {RequestTypes[i][1] : i \in DOMAIN RequestTypes} \cup {"LockFeature", "Unknown", "-"}

MCRequests ==
    {Changed(Changed(Changed(Proper(n), form), d), e) :
        n \in Names, form \in Forms, d \in Deviations,
        e \in [service : {"WFS", "-"}]}

Settings ==
    TemplateParams \cup {"validateXmlOutput", "failOnValidateErrors", "geoserver",
                         "serializedXmlSchemas", "lockedTimeStamp"}

MCConfigs ==
    {[params |-> Settings \ p, broken |-> b] :
        p \in {{}, {"validateXmlOutput"}, {"failOnValidateErrors"}, {"exceptionTemplate"},
               {"geoserver", "serializedXmlSchemas"}},
        b \in {{}, {"config"}, {"grammarPool"}, {"serializedXmlSchemas"}, {"geoserver"},
               {"features"}, {"typenames"}, {"storedQueries"}, {"lockedTimeStamp"}}}
=============================================================================
