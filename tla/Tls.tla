-------------------------------- MODULE Tls --------------------------------
(***************************************************************************)
(* TLS on one end of a connection (grpc_tls.c): an SSL_CTX is made from    *)
(* the credentials, then connections do their handshake, are used and shut *)
(* down.  OpenSSL is external: each of its calls succeeds or fails, and    *)
(* what it leaves allocated is in objects.  The ALPN callback is the code's.  *)
(***************************************************************************)
EXTENDS Integers, Sequences

CONSTANTS
    Protocols,   \* names a client may offer, as sequences of bytes; h2 is one
    MaxOffered   \* bound on the length of the client's list

ASSUME TlsAssumption == Protocols \subseteq Seq(Nat) /\ MaxOffered \in Nat

VARIABLES
    side,        \* "client" or "server"
    creds,       \* the credentials the context is made from
    at,          \* where the context's creation is, or what became of it
    objects,        \* OpenSSL objects allocated
    loaded,      \* what the context was given
    ssl,         \* conn->ssl
    offered,     \* the names the peer offered, if it is a client
    selected     \* the protocol of the connection, <<>> if none

tlsVars == <<side, creds, at, objects, loaded, ssl, offered, selected>>

h2 == <<104, 50>>

Order ==
    IF side = "client" THEN <<"new", "roots", "cert", "key", "ready">>
                       ELSE <<"new", "cert", "key", "check", "roots", "ready">>
Then == Order[1 + CHOOSE i \in 1 .. Len(Order) : Order[i] = at]

\* The PEM texts: absent (NULL), unreadable or readable.
Text == {"absent", "bad", "good"}

TlsInit ==
    /\ side \in {"client", "server"}
    /\ creds \in [pair : BOOLEAN, cert : Text, key : Text, roots : Text, match : BOOLEAN]
    /\ creds.pair \/ (creds.cert = "absent" /\ creds.key = "absent")
    /\ at = "new"
    /\ objects = {}
    /\ loaded = {}
    /\ ssl = "null"
    /\ offered = <<>>
    /\ selected = <<>>

-----------------------------------------------------------------------------
\* The creation of a context returns NULL, having freed what it lists.
Null(frees) == at' = "null" /\ objects' = objects \ frees /\ UNCHANGED loaded

\* SSL_CTX_new.  A server without a pair of key and certificate gets none.
NewContext ==
    /\ at = "new"
    /\ \/ /\ side = "server" => creds.pair
          /\ at' = Then
          /\ objects' = {"ctx"}
          /\ UNCHANGED loaded
       \/ Null({})
    /\ UNCHANGED <<side, creds, ssl, offered, selected>>

\* A certificate or key cannot be loaded.  The server gives up; the client
\* goes on without it.
CannotLoad(frees) ==
    IF side = "server" THEN Null(frees \union {"ctx"})
                       ELSE at' = Then /\ objects' = objects \ frees /\ UNCHANGED loaded

NoText ==
    /\ at \in {"cert", "key"}
    /\ creds[at] = "absent"
    /\ CannotLoad({})
    /\ UNCHANGED <<side, creds, ssl, offered, selected>>

OpenBio ==
    /\ at \in {"cert", "key"}
    /\ creds[at] # "absent"
    /\ "bio" \notin objects
    /\ \/ objects' = objects \union {"bio"} /\ UNCHANGED <<at, loaded>>
       \/ CannotLoad({})
    /\ UNCHANGED <<side, creds, ssl, offered, selected>>

ReadPem ==
    /\ at \in {"cert", "key"}
    /\ "bio" \in objects /\ "object" \notin objects
    /\ \/ /\ creds[at] = "good"
          /\ objects' = objects \union {"object"}
          /\ UNCHANGED <<at, loaded>>
       \/ CannotLoad({"bio"})
    /\ UNCHANGED <<side, creds, ssl, offered, selected>>

\* SSL_CTX_use_certificate or SSL_CTX_use_PrivateKey.
Bug_UseObject ==
    /\ at \in {"cert", "key"}
    /\ "object" \in objects
    /\ \/ /\ loaded' = loaded \union {at}
          /\ objects' = objects \ {"object", "bio"}
          /\ at' = Then
       \/ CannotLoad({"bio"})
    /\ UNCHANGED <<side, creds, ssl, offered, selected>>
UseObject ==
    /\ at \in {"cert", "key"}
    /\ "object" \in objects
    /\ \/ /\ loaded' = loaded \union {at}
          /\ objects' = objects \ {"object", "bio"}
          /\ at' = Then
       \/ CannotLoad({"object", "bio"})
    /\ UNCHANGED <<side, creds, ssl, offered, selected>>

\* SSL_CTX_check_private_key.
CheckKey ==
    /\ at = "check"
    /\ IF creds.match THEN at' = Then /\ UNCHANGED <<objects, loaded>>
                      ELSE Null({"ctx"})
    /\ UNCHANGED <<side, creds, ssl, offered, selected>>

\* The roots are read until one cannot be; the client always asks for
\* verification of its peer, the server if roots were given.
LoadRoots ==
    /\ at = "roots"
    /\ \/ /\ loaded' = IF side = "client" \/ creds.roots # "absent"
                         THEN loaded \union {"verify"} ELSE loaded
          /\ at' = Then
          /\ UNCHANGED objects
       \/ /\ side = "client"     \* BIO_new_mem_buf or the system's roots fail
          /\ Null({"ctx"})
       \/ /\ side = "server"     \* BIO_new_mem_buf fails
          /\ creds.roots # "absent"
          /\ at' = Then
          /\ UNCHANGED <<objects, loaded>>
    /\ UNCHANGED <<side, creds, ssl, offered, selected>>

-----------------------------------------------------------------------------
\* How a client writes its list: each name after its length.
Written(names) ==
    LET upTo[i \in 0 .. Len(names)] ==
            IF i = 0 THEN <<>> ELSE upTo[i - 1] \o <<Len(names[i])>> \o names[i]
    IN  upTo[Len(names)]

\* grpc_ssl_alpn_select_cb_internal: from[i] is the answer of the loop at i.
Bug_AlpnSelect(in) ==
    LET from[i \in 0 .. Len(in)] ==
            IF i = Len(in) \/ i + 1 + in[i + 1] > Len(in) THEN <<>>
            ELSE IF in[i + 1] = 2 /\ SubSeq(in, i + 2, i + 3) = h2 THEN h2
            ELSE from[i + 1]
    IN  from[0]
AlpnSelect(in) ==
    LET from[i \in 0 .. Len(in)] ==
            IF i = Len(in) \/ i + 1 + in[i + 1] > Len(in) THEN <<>>
            ELSE IF in[i + 1] = 2 /\ SubSeq(in, i + 2, i + 3) = h2 THEN h2
            ELSE from[i + 1 + in[i + 1]]
    IN  from[0]

SslNew ==
    /\ at = "ready"
    /\ ssl = "null" /\ "ssl" \notin objects
    /\ objects' = objects \union {"ssl"}
    /\ selected' = <<>>
    /\ offered' = <<>>
    /\ UNCHANGED <<side, creds, at, loaded, ssl>>

\* SSL_connect succeeds, the peer's certificate is verified, and the server
\* has selected h2 out of the list <<h2>>; anything else is a failure.
Connect ==
    /\ side = "client"
    /\ ssl = "null" /\ "ssl" \in objects
    /\ \E choice \in {<<>>, h2}, verified \in BOOLEAN :
         /\ selected' = choice
         /\ IF verified /\ choice = h2
              THEN ssl' = "open" /\ UNCHANGED objects
              ELSE objects' = objects \ {"ssl"} /\ UNCHANGED ssl
    /\ UNCHANGED <<side, creds, at, loaded, offered>>

\* SSL_accept calls the ALPN callback with the list of the client.
Accept(names) ==
    /\ side = "server"
    /\ ssl = "null" /\ "ssl" \in objects
    /\ offered' = names
    /\ \/ /\ ssl' = "open"
          /\ selected' = AlpnSelect(Written(names))
          /\ UNCHANGED objects
       \/ objects' = objects \ {"ssl"} /\ UNCHANGED <<ssl, selected>>
    /\ UNCHANGED <<side, creds, at, loaded>>

\* grpc_ssl_shutdown.
SslShutdown ==
    /\ ssl = "open"
    /\ objects' = objects \ {"ssl"}
    /\ ssl' = "null"
    /\ UNCHANGED <<side, creds, at, loaded, offered, selected>>

\* grpc_ssl_destroy_context, when no connection uses the context.
DestroyContext ==
    /\ at = "ready"
    /\ "ssl" \notin objects
    /\ Null({"ctx"})
    /\ UNCHANGED <<side, creds, ssl, offered, selected>>

Offers == UNION {[1 .. n -> Protocols] : n \in 1 .. MaxOffered}

TlsNext ==
    \/ NewContext \/ NoText \/ OpenBio \/ ReadPem \/ UseObject \/ CheckKey \/ LoadRoots
    \/ SslNew \/ Connect
    \/ \E names \in Offers : Accept(names)
    \/ SslShutdown \/ DestroyContext

TlsSpec == TlsInit /\ [][TlsNext]_tlsVars

-----------------------------------------------------------------------------
\* Whatever call of OpenSSL fails, what stays allocated is what the caller was
\* given: nothing with a context that could not be made, else the context and
\* the SSL of a connection.  A server's context has a certificate and the key
\* that belongs to it.  (The BIO and the certificates of the roots are freed by
\* the loop that reads them and by nothing else: LoadRoots is one step.)
SslObjectsAccounted ==
    /\ at = "null" => objects = {}
    /\ at = "ready" =>
         /\ objects \in {{"ctx"}, {"ctx", "ssl"}}
         /\ side = "server" => {"cert", "key"} \subseteq loaded /\ creds.match
    /\ ssl = "open" => "ssl" \in objects

\* A client is connected only when h2 was selected.  The server's callback
\* selects h2 from every list that has it in any place, and only from those,
\* whatever bytes the other names have; from the others it selects nothing
\* (SSL_TLSEXT_ERR_NOACK), and the server's handshake succeeds without h2.
AlpnAgrees ==
    ssl = "open" =>
        /\ side = "client" => selected = h2
        /\ side = "server" =>
             (selected = h2 <=> \E i \in 1 .. Len(offered) : offered[i] = h2)
=============================================================================
