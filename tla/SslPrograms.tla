---------------------------- MODULE SslPrograms ----------------------------
(***************************************************************************)
(* The programs of use_openssl, use_wolfssl and use_mbedtls: digests,      *)
(* ciphers, signatures and the start and stop of the TLS echo client and   *)
(* server, whose callbacks module SslEcho models.  `goto` to a label at    *)
(* the end of a function is a failing call whose clean-up follows it.      *)
(***************************************************************************)
EXTENDS Naturals, ProgramText

\* A body that leaves by goto on a failure, and the clean-up under the label.
ssl_guarded(body, cleanup) == <<Call(body, <<>>)>> \o cleanup
ssl_usage == Alt(<< <<Exit>>, <<Set("argv")>> >>)

(***************************************************************************)
(* use_openssl                                                             *)
(***************************************************************************)
ssl_digest_run ==
    ssl_guarded(<<Get("ctx", {}, <<Fail>>), Get("algo", {}, <<Fail>>),
                  Try({"ctx", "algo"}, <<Fail>>), Try({"ctx", "argv"}, <<Fail>>),
                  Get("outdigest", {"algo"}, <<Fail>>), Try({"ctx", "outdigest"}, <<Fail>>),
                  New("hex", {}), Do({"outdigest", "hex"}), Put("hex")>>,
                <<PutIf("outdigest"), PutIf("algo"), PutIf("ctx")>>)
openssl_digest ==
    Program(<<ssl_usage>> \o ssl_digest_run \o ssl_digest_run \o ssl_digest_run, {}, {})

\* One function for each direction; only encryption prints in hex.
ssl_cipher_run(print) ==
    ssl_guarded(<<Get("ctx", {}, <<Fail>>), Get("algo", {}, <<Fail>>),
                  Try({"ctx", "algo"}, <<Fail>>), Do({"ctx"}),
                  Try({"ctx", "ciphertext", "ret_plaintext"}, <<Fail>>),
                  Try({"ctx", "ciphertext", "ret_plaintext"}, <<Fail>>)>> \o print,
                <<PutIf("algo"), PutIf("ctx")>>)
ssl_cipher_encrypt ==
    ssl_cipher_run(<<New("hex", {}), Do({"ciphertext", "hex"}), Put("hex")>>)
ssl_cipher_decrypt == ssl_cipher_run(<<Do({"ret_plaintext"})>>)
openssl_cipher ==
    LET one == ssl_cipher_encrypt \o ssl_cipher_decrypt
    IN Program(<<ssl_usage, New("ciphertext", {}), New("ret_plaintext", {})>>
                 \o one \o one \o one
                 \o <<Put("ret_plaintext"), Put("ciphertext")>>,
               {}, {})

\* A key is read from a PEM file and set up for one operation: the context
\* `ctx` outlives the file and the key, unless one of the checks fails.
ssl_load_key(checks) ==
    ssl_guarded(<<Get("bp", {}, <<Fail>>), Try({"bp"}, <<Fail>>),
                  New("key", {}), Try({"bp", "key"}, <<Fail>>),
                  Get("ctx", {"key"}, <<Fail>>)>>
                  \o [i \in 1 .. checks |-> Try({"ctx"}, <<Put("ctx"), Fail>>)],
                <<PutIf("key"), PutIf("bp")>>)
openssl_load_pub_key == ssl_load_key(2)
openssl_load_pri_key == ssl_load_key(2)
openssl_init_sign_ctx == ssl_load_key(3)
openssl_init_verify_ctx == ssl_load_key(3)

openssl_pub_encrypt ==
    ssl_guarded(openssl_load_pub_key
                  \o <<If("ctx", <<>>, <<Fail>>), Try({"ctx", "argv"}, <<Fail>>),
                       New("ciphertext", {}), Try({"ctx", "ciphertext"}, <<Fail>>),
                       New("ciphertext_hex", {}), Do({"ciphertext", "ciphertext_hex"})>>,
                <<PutIf("ciphertext"), PutIf("ctx")>>)

\* The plain text is returned even when the second EVP_PKEY_decrypt() fails.
openssl_pri_decrypt ==
    ssl_guarded(openssl_load_pri_key
                  \o <<If("ctx", <<>>, <<Fail>>),
                       New("ciphertext", {}), Do({"ciphertext_hex", "ciphertext"}),
                       Try({"ctx", "ciphertext"}, <<Fail>>),
                       New("plaintext", {}), Try({"ctx", "plaintext", "ciphertext"}, <<Fail>>)>>,
                <<PutIf("ciphertext"), PutIf("ctx")>>)

openssl_rsa_enc_dec ==
    Program(<<ssl_usage>>
              \o openssl_pub_encrypt
              \o <<If("ciphertext_hex", <<>>, <<Exit>>), Do({"ciphertext_hex"})>>
              \o openssl_pri_decrypt
              \o <<If("plaintext", <<>>, <<Exit>>), Do({"plaintext"}),
                   Put("plaintext"), Put("ciphertext_hex")>>,
            {}, {"ciphertext_hex"})

openssl_sign_digest ==
    ssl_guarded(<<Get("md", {}, <<Fail>>), Try({"md"}, <<Fail>>), Try({"md", "argv"}, <<Fail>>),
                  Get("outdigest", {}, <<Fail>>),
                  Try({"md", "outdigest"}, <<Put("outdigest"), Fail>>)>>,
                <<PutIf("md")>>)

openssl_sign ==
    ssl_guarded(openssl_sign_digest \o <<If("outdigest", <<>>, <<Fail>>)>>
                  \o openssl_init_sign_ctx
                  \o <<If("ctx", <<>>, <<Fail>>), Try({"ctx", "argv"}, <<Fail>>),
                       New("sign_bytes", {}),
                       Try({"ctx", "sign_bytes", "outdigest"}, <<Put("sign_bytes"), Fail>>),
                       New("sign_hex", {}), Do({"sign_bytes", "sign_hex"})>>,
                <<PutIf("sign_bytes"), PutIf("ctx"), PutIf("outdigest")>>)

\* verify_ret starts as true and only EVP_PKEY_verify() clears it: a digest
\* or a key that could not be made leaves it as it is.
openssl_verify ==
    ssl_guarded(<<Set("verify_ret")>> \o openssl_sign_digest
                  \o <<If("outdigest", <<>>, <<Fail>>)>>
                  \o openssl_init_verify_ctx
                  \o <<If("ctx", <<>>, <<Fail>>),
                       New("sig", {}), Do({"sign_hex", "sig"}),
                       Try({"ctx", "sig", "outdigest"}, <<Unset("verify_ret")>>)>>,
                <<PutIf("sig"), PutIf("outdigest"), PutIf("ctx")>>)

openssl_rsa_sign ==
    Program(<<ssl_usage>>
              \o openssl_sign
              \o <<If("sign_hex", <<>>, <<Exit>>), Do({"sign_hex"})>>
              \o openssl_verify
              \o <<If("verify_ret", <<>>, <<>>), Put("sign_hex")>>,
            {}, {})

\* The decimal string of BN_bn2dec() is never freed.
openssl_bignum_add ==
    ssl_guarded(<<Get("n1", {}, <<>>), Get("n2", {}, <<>>), Get("n", {}, <<>>),
                  If("n1", <<>>, <<Fail>>), If("n2", <<>>, <<Fail>>), If("n", <<>>, <<Fail>>),
                  Try({"n1"}, <<Fail>>), Try({"n2"}, <<Fail>>), Try({"n", "n1", "n2"}, <<Fail>>),
                  New("result", {"n"}), Alt(<< <<Fail>>, <<Do({"result"})>> >>)>>,
                <<PutIf("n"), PutIf("n2"), PutIf("n1")>>)
openssl_bignum == Program(openssl_bignum_add, {"result"}, {})

openssl_hmac ==
    Program(<<Set("argv"), Get("fp", {}, <<Exit>>), Do({"fp"}), Put("fp"),
              New("md", {}), Try({"md"}, <<Put("md"), Exit>>),
              New("output_hex", {}), Do({"md", "output_hex"}),
              Put("output_hex"), Put("md")>>,
            {}, {})

\* Three codes are generated: for now, 30 seconds ago and in 30 seconds.
openssl_totp_code ==
    <<New("digest", {"key"}), Try({"key", "digest"}, <<Put("digest"), Exit>>),
      Do({"digest"}), Put("digest")>>
openssl_totp ==
    Program(<<Alt(<< <<Set("argv"), Try({"argv"}, <<Exit>>), Set("key")>>, <<Set("key")>> >>),
              Do({"key"})>>
              \o openssl_totp_code \o openssl_totp_code \o openssl_totp_code,
            {}, {})

(***************************************************************************)
(* ssl01_echo: a context handed to the event loop belongs to the loop.     *)
(***************************************************************************)
\* tcp_connect(), tcp_listen(): a socket in a context, or nothing.
ssl_socket_ctx(r) == <<Get("fd", {}, <<Fail>>), Get(r, {"fd"}, <<Put("fd"), Fail>>), Put("fd")>>

\* muggle_socket_evloop_add_ctx()
ssl_add_ctx(r) == <<Do({"evloop", r}), Put(r)>>

openssl_load_enc_key ==
    ssl_guarded(<<Get("bp", {}, <<Fail>>), Try({"bp"}, <<Fail>>),
                  Get("pkey", {}, <<Fail>>), Try({"bp", "pkey"}, <<Put("pkey"), Fail>>)>>,
                <<PutIf("bp")>>)

openssl_new_server_ssl_ctx ==
    <<Get("ssl_ctx", {}, <<Fail>>), Try({"ssl_ctx"}, <<Put("ssl_ctx"), Fail>>)>>
      \o openssl_load_enc_key
      \o <<If("pkey", <<>>, <<Put("ssl_ctx"), Fail>>),
           Try({"ssl_ctx", "pkey"}, <<Put("pkey"), Put("ssl_ctx"), Fail>>),
           Put("pkey")>>

openssl_new_client_ssl_ctx ==
    <<Get("ssl_ctx", {}, <<Fail>>), Do({"ssl_ctx"}), Try({"ssl_ctx"}, <<Put("ssl_ctx"), Fail>>)>>

ssl_evloop_with_handle ==
    <<Get("evloop", {}, <<Fail>>), Get("handle", {}, <<Fail>>),
      Try({"handle"}, <<Put("handle"), Fail>>), Do({"handle", "evloop"})>>
ssl_evloop_cleanup ==
    <<PutIf("user_data"), PutIf("ssl_ctx"), PutIf("handle"), PutIf("evloop")>>

\* Nothing makes the server's loop return.
openssl_run_ssl_server ==
    ssl_guarded(ssl_evloop_with_handle
                  \o <<Call(openssl_new_server_ssl_ctx, <<Fail>>),
                       Call(ssl_socket_ctx("listen_ctx"), <<Fail>>)>>
                  \o ssl_add_ctx("listen_ctx")
                  \o <<Get("user_data", {}, <<Fail>>), Do({"user_data", "ssl_ctx", "evloop"}),
                       Forever(<<Do({"evloop", "user_data", "handle", "ssl_ctx"})>>),
                       Set("done")>>,
                ssl_evloop_cleanup)

\* The first connection is tried again until it is there; the loop returns
\* when ssl_client_on_close() has no memory to reconnect.
openssl_run_ssl_client ==
    ssl_guarded(ssl_evloop_with_handle
                  \o <<Call(openssl_new_client_ssl_ctx, <<Fail>>),
                       Forever(<<Call(ssl_socket_ctx("conn_ctx"), <<>>),
                                 If("conn_ctx", ssl_add_ctx("conn_ctx") \o <<Break>>, <<>>)>>),
                       Get("user_data", {}, <<Fail>>), Do({"user_data", "ssl_ctx", "evloop"}),
                       Loop(<<Do({"evloop", "user_data", "handle", "ssl_ctx"})>>),
                       Set("done")>>,
                ssl_evloop_cleanup)

openssl_parse_sys_args ==
    <<Loop(<<Alt(<< <<Quit>>, <<Set("role")>>, <<>> >>)>>), If("role", <<>>, <<Exit>>)>>

openssl_echo_main ==
    Program(<<Try({}, <<Exit>>), Try({}, <<Exit>>)>> \o openssl_parse_sys_args
              \o <<Do({"role"}),
                   Alt(<<openssl_run_ssl_server, openssl_run_ssl_client>>),
                   If("done", <<>>, <<Exit>>)>>,
            {}, {})

(***************************************************************************)
(* use_wolfssl                                                             *)
(***************************************************************************)
wolf_hash(h) == <<Try({}, <<Exit>>), Set(h), Try({h, "argv"}, <<Exit>>), Try({h}, <<Exit>>)>>
wolfssl_hash_digest == Program(<<ssl_usage>> \o wolf_hash("md5") \o wolf_hash("sha"), {}, {})

\* random_block(), gen_salt(): a failing generator is not freed.
wolf_random_block == <<Get("rng", {}, <<Fail>>), Try({"rng"}, <<Fail>>), Put("rng")>>

\* Only the successful hmac_sign() frees the state.
wolf_hmac_sign ==
    <<Get("hmac", {}, <<Fail>>), Try({"hmac"}, <<Fail>>), Try({"hmac"}, <<Fail>>),
      Try({"hmac"}, <<Fail>>), Try({"hmac"}, <<Fail>>), Put("hmac")>>
wolfssl_hmac ==
    Program(<<Call(wolf_random_block, <<Exit>>), Set("access_key"),
              Call(wolf_random_block, <<Exit>>), Set("secure_key"),
              Do({"access_key", "secure_key"}), Call(wolf_hmac_sign, <<Exit>>)>>,
            {}, {"rng", "hmac"})

wolf_gen_hash == <<Alt(<< <<Fail>>, <<Try({"argv", "salt"}, <<Fail>>), Set("hash")>> >>)>>
wolf_passwd_hash ==
    <<Maybe(<<Fail>>), Call(wolf_random_block, <<Fail>>), Set("salt"),
      Call(wolf_gen_hash, <<Fail>>), Do({"salt", "hash"})>>

\* A password of a wrong length is `return -1` from a bool function: true.
wolf_verify_hash ==
    <<Maybe(<<Return>>), Do({"salt"}), Call(wolf_gen_hash, <<Fail>>), Maybe(<<Fail>>)>>
wolfssl_passwd_hash ==
    Program(<<ssl_usage, Call(wolf_passwd_hash, <<Exit>>), Call(wolf_verify_hash, <<Exit>>)>>,
            {}, {"rng"})

wolf_aes_cbc ==
    <<Try({}, <<Exit>>), New("ciphertext", {}), Try({"ciphertext", "argv"}, <<Exit>>),
      Try({}, <<Exit>>), New("ret_plaintext", {}), Try({"ret_plaintext", "ciphertext"}, <<Exit>>),
      New("ciphertext_hex", {}), Do({"ciphertext", "ciphertext_hex", "ret_plaintext"}),
      Put("ciphertext_hex"), Put("ret_plaintext"), Put("ciphertext")>>
\* Here a failing wc_FreeRng() counts as a failure.
wolf_random_block_aes ==
    <<Get("rng", {}, <<Fail>>), Try({"rng"}, <<Fail>>), Put("rng"), Maybe(<<Fail>>)>>
wolfssl_aes ==
    Program(<<ssl_usage, Call(wolf_random_block_aes, <<Exit>>),
              Call(wolf_random_block_aes, <<Exit>>)>>
              \o wolf_aes_cbc,
            {}, {"rng", "ciphertext", "ret_plaintext"})

\* A file that is not read whole leaves its buffer behind.
wolf_load_file ==
    <<Get("fp", {}, <<Fail>>), New("buf", {}), Try({"fp", "buf"}, <<Put("fp"), Fail>>), Put("fp")>>
wolf_rsa_public_encrypt ==
    <<Call(wolf_load_file, <<Fail>>), Try({"buf"}, <<Put("buf"), Fail>>), Put("buf"),
      Get("key", {}, <<Fail>>), Try({"key"}, <<Put("key"), Fail>>), Put("key")>>
wolfssl_rsa ==
    Program(<<ssl_usage, New("library", {}), Get("rng", {}, <<Exit>>),
              Alt(<< <<Call(wolf_rsa_public_encrypt, <<>>)>>, <<>>, <<Exit>> >>),
              Put("rng"), Put("library")>>,
            {"buf"}, {"library", "rng"})

wolf_gen_ssl_ctx(loads) ==
    <<Get("ssl_ctx", {"library"}, <<Fail>>)>>
      \o [i \in 1 .. loads |-> Try({"ssl_ctx"}, <<Put("ssl_ctx"), Fail>>)]

\* The context of a socket that could not be initialized is not freed, and
\* main() hands the NULL on to the event loop.
wolf_tcp_listen ==
    <<Forever(<<Get("fd", {}, <<Continue>>), Break>>), New("ctx", {}),
      Try({"ctx", "fd"}, <<Put("fd"), Fail>>), Put("fd"), Put("ctx"), Set("listen_ctx")>>

wolf_evloop == <<New("library", {}), Get("evloop", {}, <<Exit>>), New("handle", {"evloop"})>>
\* Nothing in these two programs makes the loop return.
wolf_evloop_run ==
    <<Forever(<<Do({"evloop", "handle", "ssl_ctx"})>>),
      Put("ssl_ctx"), Put("library"), Put("handle"), Put("evloop")>>

wolfssl_echo_serv ==
    Program(<<ssl_usage>> \o wolf_evloop
              \o <<Call(wolf_tcp_listen, <<>>), Do({"evloop"}), Blind({"listen_ctx"}),
                   Call(wolf_gen_ssl_ctx(2), <<Exit>>)>>
              \o wolf_evloop_run,
            {"ctx"}, {"library", "evloop", "handle"})

\* The connecting thread is detached and runs until it has connected.
wolf_conn_thread_routine ==
    <<Forever(<<Get("fd", {}, <<Continue>>), New("ctx", {"fd"}), Do({"ctx", "evloop"}),
                Put("fd"), Put("ctx"), Break>>)>>

wolfssl_timer_client ==
    Program(<<ssl_usage>> \o wolf_evloop
              \o <<Spawn("conn", wolf_conn_thread_routine), Call(wolf_gen_ssl_ctx(1), <<Exit>>)>>
              \o wolf_evloop_run,
            {}, {"library", "evloop", "handle", "fd", "ctx"})

(***************************************************************************)
(* use_mbedtls                                                             *)
(***************************************************************************)
mbedtls_rng ==
    Program(<<New("entropy", {}), NewIn("ctr_drbg", {"entropy"}, {})>>
              \o ssl_guarded(<<Try({"ctr_drbg", "entropy"}, <<Fail>>), Do({"ctr_drbg"}),
                               Loop(<<Try({"ctr_drbg"}, <<Fail>>)>>)>>,
                             <<Put("ctr_drbg"), Put("entropy")>>),
            {}, {})

mbed_thread_init ==
    <<New("entropy", {}), NewIn("ctr_drbg", {"entropy"}, {}),
      Try({"ctr_drbg", "entropy"}, <<Put("ctr_drbg"), Put("entropy"), Fail>>), Do({"ctr_drbg"})>>
mbed_rsa_encrypt ==
    <<New("pk", {})>>
      \o ssl_guarded(<<Try({"pk", "argv"}, <<Fail>>), Try({"pk", "ctr_drbg"}, <<Fail>>)>>,
                     <<Put("pk")>>)
mbed_rsa_decrypt ==
    <<New("pk", {})>>
      \o ssl_guarded(<<Try({"pk", "argv", "ctr_drbg"}, <<Fail>>), Do({"argv"}),
                       Try({"pk", "ctr_drbg"}, <<Fail>>)>>,
                     <<Put("pk")>>)
mbedtls_rsa ==
    Program(<<ssl_usage, Call(mbed_thread_init, <<Exit>>),
              Alt(<<mbed_rsa_encrypt, mbed_rsa_decrypt, <<Exit>> >>),
              Put("ctr_drbg"), Put("entropy")>>,
            {}, {"ctr_drbg", "entropy"})

\* `return false` from main() is an exit status of success.
psa_start == <<Try({}, <<Exit>>), Get("psa", {}, <<Quit>>)>>
psa_import_key_aes ==
    <<Maybe(<<Fail>>), New("attributes", {}),
      GetIn("key_id", {"psa"}, {"attributes"}, <<Fail>>), Put("attributes"), Put("key_id")>>
psa_import_key ==
    Program(psa_start \o <<Call(psa_import_key_aes, <<Set("failed")>>), Put("psa"),
                           If("failed", <<Exit>>, <<>>)>>,
            {}, {"attributes"})

\* A hash operation that fails on the way is not aborted.
psa_hash_message ==
    <<Get("operation", {"psa"}, <<Fail>>), Try({"operation", "argv"}, <<Fail>>),
      Try({"operation"}, <<Fail>>), Put("operation")>>
psa_hash_msg ==
    Program(<<Try({}, <<Exit>>), ssl_usage, Get("psa", {}, <<Quit>>),
              Call(psa_hash_message, <<Set("failed")>>), Put("psa"),
              If("failed", <<Exit>>, <<>>)>>,
            {}, {"operation"})

SslPrograms ==
    [openssl_digest |-> openssl_digest, openssl_cipher |-> openssl_cipher,
     openssl_rsa_enc_dec |-> openssl_rsa_enc_dec, openssl_rsa_sign |-> openssl_rsa_sign,
     openssl_bignum |-> openssl_bignum, openssl_hmac |-> openssl_hmac,
     openssl_totp |-> openssl_totp, openssl_echo_main |-> openssl_echo_main,
     wolfssl_hash_digest |-> wolfssl_hash_digest, wolfssl_hmac |-> wolfssl_hmac,
     wolfssl_passwd_hash |-> wolfssl_passwd_hash, wolfssl_aes |-> wolfssl_aes,
     wolfssl_rsa |-> wolfssl_rsa, wolfssl_echo_serv |-> wolfssl_echo_serv,
     wolfssl_timer_client |-> wolfssl_timer_client,
     mbedtls_rng |-> mbedtls_rng, mbedtls_rsa |-> mbedtls_rsa,
     psa_import_key |-> psa_import_key, psa_hash_msg |-> psa_hash_msg]
=============================================================================
