---------------------------- MODULE MCForwarding ----------------------------
EXTENDS Forwarding

MCAddresses == {"10.0.0.1", "10.0.0.2"}
MCDirectives == <<[src |-> {"lan", "wan"}, dst |-> {}, permit |-> TRUE],
                  [src |-> {"lan"}, dst |-> {"10.0.0.1"}, permit |-> FALSE],
                  [src |-> {"wan"}, dst |-> {"10.0.0.2"}, permit |-> FALSE]>>
MCNoDirectives == <<>>
MCTasks == [type : {"none", "webserver", "socks4", "socks4a", "socks5", "socks5t"}, parent : BOOLEAN,
            override : BOOLEAN, auth : BOOLEAN, badPort : BOOLEAN, whole : BOOLEAN,
            way : {"plain", "tunnel", "inspected"}, body : BOOLEAN]
\* A name of three characters would leave nothing to read, one of 200 has a negative length.
MCDomainSizes == {1, 3, 4, 11, 200}
=============================================================================
