-------------------------- MODULE MCRecordBrowser --------------------------
\* RecordBrowser on one interface with a service name and a CNAME beside it.
EXTENDS RecordBrowser

CONSTANTS b1, b2, wlan, name, host, ptr, cname, addr

\* One record and one CNAME under the same name, and the record the CNAME
\* leads to.
MCKeyOf == (ptr :> name) @@ (cname :> name) @@ (addr :> host)
MCTarget == (ptr :> NoKey) @@ (cname :> host) @@ (addr :> NoKey)

\* Both browse for the name, one on every interface and one on this one.
MCBrowsedKey == (b1 :> name) @@ (b2 :> name)
MCBrowsedIf == (b1 :> AnyIf) @@ (b2 :> wlan)
=============================================================================
