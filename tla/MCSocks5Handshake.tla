------------------------- MODULE MCSocks5Handshake -------------------------
EXTENDS Socks5Handshake

MCMethodList == {<<0>>, <<2, 0>>}

\* 10.0.0.1, ::1, "ab" and a name with a byte that is no ASCII.
MCAddress == {[type |-> "IPV4", bytes |-> <<10, 0, 0, 1>>],
              [type |-> "IPV6", bytes |-> [i \in 1 .. 16 |-> IF i = 16 THEN 1 ELSE 0]],
              [type |-> "DOMAIN", bytes |-> <<97, 98>>],
              [type |-> "DOMAIN", bytes |-> <<97, 200>>]}

MCPortNumber == {80, 443, 256}

MCReserved == {0, 9}

Early == <<22>>   \* what a client sends ahead

\* Proper clients; refused and unsupported greetings; requests of another
\* version, command or address type, without a name or a port.
MCScript ==
    {Greeting(m) \o Request(0, a, p) \o Early :
        m \in MCMethodList, a \in MCAddress, p \in MCPortNumber}
    \cup {Greeting(<<0>>) \o Request(9, a, 80) \o Early : a \in MCAddress}
    \cup {Greeting(<<>>), Greeting(<<2>>), <<4, 1, 0>>}
    \cup {Greeting(<<0>>) \o r \o Early :
            r \in {<<4, 1, 0, 1>>, <<5, 2, 0, 1>>, <<5, 1, 0, 2>>,
                   <<5, 1, 0, 3, 0>>, <<5, 1, 0, 1, 10, 0, 0, 1, 0, 0>>}}
=============================================================================
