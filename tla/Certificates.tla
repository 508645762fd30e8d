---------------------------- MODULE Certificates ----------------------------
(***************************************************************************)
(* TLS with the client (openssl.c, ssl_common.c): the files with a host's  *)
(* key and certificate are made when the first client asks for the host,   *)
(* under certificate_mutex, and read again after the mutex was released.   *)
(* Any write may fail, at once or when the buffered file is closed, and    *)
(* the program may be killed at any time.                                  *)
(***************************************************************************)
EXTENDS Naturals

CONSTANTS
  Threads, Hosts,
  MaxKeys        \* bound: keys made

ASSUME CertificatesAssumption == MaxKeys \in Nat /\ "none" \notin Threads

VARIABLES
  keyFile,   \* each host's files: absent, a part of one, or whole
  certFile,
  keys,      \* how many keys were made; they are numbered
  mutex,     \* certificate_mutex
  at, host,  \* what each thread does, for which host
  made,      \* the key it made
  read,      \* the certificate it has read
  server     \* its TLS connection to the server

fileVars   == <<keyFile, certFile>>
threadVars == <<mutex, at, host, made, read>>
certVars == <<fileVars, keys, threadVars, server>>

File(state, key) == [state |-> state, key |-> key]
NoFile == File("none", 0)
Part   == File("part", 0)

FilesType == [state : {"none", "part", "whole", "expired"}, key : 0..MaxKeys]

\* Steps of generate_host_certificate(), with the mutex held.
Generating == {"sane", "check", "unlinkKey", "key", "writeKey", "cert", "writeCert"}

Steps == Generating \cup {"idle", "lock", "loadCert", "loadKey", "handshake", "open"}

CertInit ==
  /\ keyFile = [h \in Hosts |-> NoFile] /\ certFile = [h \in Hosts |-> NoFile]
  /\ keys = 0 /\ mutex = "none"
  /\ at = [t \in Threads |-> "idle"] /\ host \in [Threads -> Hosts]
  /\ made = [t \in Threads |-> 0] /\ read = [t \in Threads |-> NoFile]
  /\ server = [t \in Threads |-> "closed"]

Exists(f) == f.state # "none"

Goto(t, step) == at' = [at EXCEPT ![t] = step]

-----------------------------------------------------------------------------
(* The client asks for TLS.                                                *)

AskForTls(t) ==
  /\ at[t] = "idle" /\ Goto(t, "lock")
  /\ \E h \in Hosts : host' = [host EXCEPT ![t] = h]
  /\ UNCHANGED <<fileVars, keys, mutex, made, read, server>>

\* Mutant of Free: the mutex is never waited for.
FreeAlways == TRUE
Free == mutex = "none"

Lock(t) ==
  /\ at[t] = "lock" /\ Free
  /\ mutex' = t /\ Goto(t, "sane")
  /\ UNCHANGED <<fileVars, keys, host, made, read, server>>

\* Back to create_client_ssl_connection(), which goes on or gives up.
Release(t, step) ==
  /\ mutex' = "none" /\ Goto(t, step)
  /\ made' = [made EXCEPT ![t] = 0]

Fails(t) == Release(t, "idle") /\ UNCHANGED keys

\* Mutant of Orphan: a key without a certificate stays.
OrphanStays(key, cert) == FALSE
Orphan(key, cert) == Exists(key) /\ ~Exists(cert)

\* enforce_sane_certificate_state().
MakeSane(t) ==
  LET h == host[t] IN
  /\ at[t] = "sane"
  /\ \/ /\ keyFile'  = [keyFile EXCEPT ![h] = IF Orphan(@, certFile[h]) THEN NoFile ELSE @]
        /\ certFile' = [certFile EXCEPT ![h] = IF Exists(keyFile[h]) THEN @ ELSE NoFile]
        /\ Goto(t, "check") /\ UNCHANGED <<keys, mutex, made>>
     \/ Exists(keyFile[h]) # Exists(certFile[h]) /\ Fails(t) /\ UNCHANGED fileVars
  /\ UNCHANGED <<host, read, server>>

\* ssl_certificate_is_invalid(): what cannot be parsed is not valid.
Valid(cert) == cert.state = "whole"

\* generate_host_certificate(): is there a certificate that can be used?
CheckCertificate(t) ==
  LET h == host[t] IN
  /\ at[t] = "check"
  /\ \/ ~Exists(certFile[h]) /\ Goto(t, "key") /\ UNCHANGED <<certFile, mutex, made, keys>>
     \/ Valid(certFile[h]) /\ Release(t, "loadCert") /\ UNCHANGED <<certFile, keys>>
     \/ /\ Exists(certFile[h]) /\ ~Valid(certFile[h])
        /\ \/ certFile' = [certFile EXCEPT ![h] = NoFile] /\ Goto(t, "unlinkKey")
              /\ UNCHANGED <<mutex, made, keys>>
           \/ Fails(t) /\ UNCHANGED certFile
  /\ UNCHANGED <<keyFile, host, read, server>>

\* The key goes with its certificate.
UnlinkKey(t) ==
  /\ at[t] = "unlinkKey"
  /\ \/ keyFile' = [keyFile EXCEPT ![host[t]] = NoFile] /\ Goto(t, "key")
        /\ UNCHANGED <<mutex, made, keys>>
     \/ Fails(t) /\ UNCHANGED keyFile
  /\ UNCHANGED <<certFile, host, read, server>>

\* generate_key(): a key that exists is kept, and generate_host_certificate() returns
\* without a certificate ("XXX: Can this still happen?").
GenerateKey(t) ==
  LET h == host[t] IN
  /\ at[t] = "key"
  /\ \/ Exists(keyFile[h]) /\ Release(t, "loadCert") /\ UNCHANGED <<keyFile, keys>>
     \/ ~Exists(keyFile[h]) /\ Fails(t) /\ UNCHANGED keyFile
     \/ /\ ~Exists(keyFile[h]) /\ keys < MaxKeys
        /\ keys' = keys + 1 /\ made' = [made EXCEPT ![t] = keys + 1]
        /\ keyFile' = [keyFile EXCEPT ![h] = Part]
        /\ Goto(t, "writeKey") /\ UNCHANGED mutex
  /\ UNCHANGED <<certFile, host, read, server>>

\* write_private_key(): fwrite() tells that it failed, close_file_stream() does not.
WriteKey(t) ==
  /\ at[t] = "writeKey"
  /\ \/ Fails(t) /\ UNCHANGED keyFile
     \/ /\ \E f \in {Part, File("whole", made[t])} : keyFile' = [keyFile EXCEPT ![host[t]] = f]
        /\ Goto(t, "cert") /\ UNCHANGED <<mutex, made, keys>>
  /\ UNCHANGED <<certFile, host, read, server>>

\* generate_host_certificate(), for the key in memory; the CA's files may be missing.
IssueCertificate(t) ==
  /\ at[t] = "cert"
  /\ \/ Fails(t) /\ UNCHANGED certFile
     \/ certFile' = [certFile EXCEPT ![host[t]] = Part] /\ Goto(t, "writeCert")
        /\ UNCHANGED <<mutex, made, keys>>
  /\ UNCHANGED <<keyFile, host, read, server>>

\* write_certificate().
WriteCertificate(t) ==
  /\ at[t] = "writeCert"
  /\ \/ Fails(t) /\ UNCHANGED certFile
     \/ /\ \E f \in {Part, File("whole", made[t])} : certFile' = [certFile EXCEPT ![host[t]] = f]
        /\ Release(t, "loadCert") /\ UNCHANGED keys
  /\ UNCHANGED <<keyFile, host, read, server>>

\* create_client_ssl_connection(), with the mutex released: the certificate, ...
LoadCertificate(t) ==
  LET f == certFile[host[t]] IN
  /\ at[t] = "loadCert"
  /\ IF f.state \in {"whole", "expired"}
     THEN read' = [read EXCEPT ![t] = f] /\ Goto(t, "loadKey")
     ELSE Goto(t, "idle") /\ UNCHANGED read
  /\ UNCHANGED <<fileVars, keys, mutex, host, made, server>>

\* ... and the key, which has to be that of the certificate.
LoadKey(t) ==
  LET f == keyFile[host[t]] IN
  /\ at[t] = "loadKey"
  /\ Goto(t, IF f.state = "whole" /\ f.key = read[t].key THEN "handshake" ELSE "idle")
  /\ read' = [read EXCEPT ![t] = IF at'[t] = "idle" THEN NoFile ELSE @]
  /\ UNCHANGED <<fileVars, keys, mutex, host, made, server>>

\* close_client_and_server_ssl_connections().
Close(t) ==
  /\ Goto(t, "idle")
  /\ read' = [read EXCEPT ![t] = NoFile]
  /\ server' = [server EXCEPT ![t] = "closed"]

\* The handshake with the client.
Handshake(t) ==
  /\ at[t] = "handshake"
  /\ \/ Goto(t, "open") /\ UNCHANGED <<read, server>>
     \/ Close(t)
  /\ UNCHANGED <<fileVars, keys, mutex, host, made>>

\* create_server_ssl_connection(), through the parent proxy if there is one: unless it
\* succeeds chat() tells the client, of the certificates or of the connection, and closes.
ConnectServer(t) ==
  /\ at[t] = "open" /\ server[t] = "closed"
  /\ \/ server' = [server EXCEPT ![t] = "open"] /\ UNCHANGED <<at, read>>
     \/ Close(t)
  /\ UNCHANGED <<fileVars, keys, mutex, host, made>>

EndSession(t) ==
  /\ at[t] = "open" /\ Close(t)
  /\ UNCHANGED <<fileVars, keys, mutex, host, made>>

-----------------------------------------------------------------------------
(* What happens from outside.                                              *)

Expire(h) ==
  /\ certFile[h].state = "whole"
  /\ certFile' = [certFile EXCEPT ![h].state = "expired"]
  /\ UNCHANGED <<keyFile, keys, threadVars, server>>

\* The program is killed and started again.
Restart ==
  /\ at' = [t \in Threads |-> "idle"] /\ mutex' = "none"
  /\ made' = [t \in Threads |-> 0] /\ read' = [t \in Threads |-> NoFile]
  /\ server' = [t \in Threads |-> "closed"]
  /\ UNCHANGED <<fileVars, keys, host>>

CertNext ==
  \/ \E t \in Threads :
       \/ AskForTls(t) \/ Lock(t) \/ MakeSane(t) \/ CheckCertificate(t) \/ UnlinkKey(t)
       \/ GenerateKey(t) \/ WriteKey(t) \/ IssueCertificate(t) \/ WriteCertificate(t)
       \/ LoadCertificate(t) \/ LoadKey(t) \/ Handshake(t) \/ ConnectServer(t) \/ EndSession(t)
  \/ \E h \in Hosts : Expire(h)
  \/ Restart

CertSpec == CertInit /\ [][CertNext]_certVars

-----------------------------------------------------------------------------
(* Properties.                                                             *)

CertTypeOK ==
  /\ keyFile \in [Hosts -> FilesType] /\ certFile \in [Hosts -> FilesType]
  /\ keys \in 0..MaxKeys /\ mutex \in Threads \cup {"none"}
  /\ at \in [Threads -> Steps] /\ host \in [Threads -> Hosts]
  /\ made \in [Threads -> 0..MaxKeys] /\ read \in [Threads -> FilesType]
  /\ server \in [Threads -> {"closed", "open"}]

\* Whatever was interrupted, and whichever threads asked for the host at once: two whole
\* files belong together.
FilesMatch ==
  \A h \in Hosts :
    certFile[h].state \in {"whole", "expired"} /\ keyFile[h].state = "whole" =>
      certFile[h].key = keyFile[h].key

\* A key that exists does not keep generate_host_certificate() from making a certificate:
\* what it finds half done it removes first ("Can this still happen?" - it cannot).
KeyIsNew == \A t \in Threads : at[t] = "key" => ~Exists(keyFile[host[t]])

\* The inductive invariant: what the thread with the mutex has made sure of at each step.
Progress(t) ==
  LET key  == keyFile[host[t]]
      cert == certFile[host[t]]
      Fits == key.state = "whole" => key.key = made[t]
  IN
  /\ at[t] \in Generating => mutex = t
  /\ at[t] = "check" => (Exists(key) <=> Exists(cert))
  /\ at[t] \in {"unlinkKey", "key", "writeKey", "cert"} => ~Exists(cert)
  /\ at[t] = "key" => ~Exists(key)
  /\ at[t] = "cert" => Fits
  /\ at[t] = "writeCert" => cert = Part /\ Fits

CertificatesInv == CertTypeOK /\ FilesMatch /\ \A t \in Threads : Progress(t)

\* "Mutex to prevent certificate and key inconsistence must be locked": a certificate that
\* will be used for months has its key.
CertificateHasKey ==
  mutex = "none" => \A h \in Hosts : Valid(certFile[h]) => keyFile[h].state = "whole"
=============================================================================
